---- MODULE Spec2Model ----
(***************************************************************************)
(* Event-driven backtest engine of iaf-service (backtesting/engine.py).    *)
(* Python floats are modelled as exact rationals [n, d] in lowest terms;   *)
(* the absent value None is the record with denominator 0.                 *)
(***************************************************************************)
EXTENDS Integers, Sequences, FiniteSets, TLC

(* ------------------------------ bounds --------------------------------- *)
MaxCandles == 3
MaxSignals == 2
MaxOpens == 2

(* ------------------------- rational arithmetic ------------------------- *)
Abs(x) == IF x < 0 THEN -x ELSE x

RECURSIVE GCD(_, _)
GCD(a, b) == IF b = 0 THEN a ELSE GCD(b, a % b)

Norm(n, d) ==
    LET g == GCD(Abs(n), d)
    IN  [n |-> n \div g, d |-> d \div g]

R(k) == [n |-> k, d |-> 1]

NoneR == [n |-> 0, d |-> 0]

IsNone(a) == a.d = 0

\* Python truthiness of an Optional[float]: neither None nor 0.0
Truthy(a) == a.d # 0 /\ a.n # 0

RNeg(a) == [n |-> -a.n, d |-> a.d]

RAdd(a, b) ==
    LET g == GCD(a.d, b.d)
    IN  Norm(a.n * (b.d \div g) + b.n * (a.d \div g), (a.d \div g) * b.d)

RSub(a, b) == RAdd(a, RNeg(b))

RMul(a, b) ==
    LET g1 == GCD(Abs(a.n), b.d)
        g2 == GCD(Abs(b.n), a.d)
    IN  [n |-> (a.n \div g1) * (b.n \div g2), d |-> (a.d \div g2) * (b.d \div g1)]

RInv(a) == IF a.n < 0 THEN [n |-> -a.d, d |-> -a.n] ELSE [n |-> a.d, d |-> a.n]

RDiv(a, b) == RMul(a, RInv(b))

RLe(a, b) ==
    LET g == GCD(a.d, b.d)
    IN  a.n * (b.d \div g) <= b.n * (a.d \div g)

RLt(a, b) == ~RLe(b, a)

RMax(a, b) == IF RLe(a, b) THEN b ELSE a

RMin(a, b) == IF RLe(a, b) THEN a ELSE b

RECURSIVE RSum(_)
RSum(s) == IF s = <<>> THEN R(0) ELSE RAdd(Head(s), RSum(Tail(s)))

(* ------------------------------ input domains -------------------------- *)
PriceSet == {50, 100, 200}

Symbols == {"BTC", "ETH"}

\* OHLCV rows as the loop reads them (high, low, close): a flat, a rising
\* and a wide falling candle
Candles ==
    {c \in [high : PriceSet, low : PriceSet, close : PriceSet] :
        \/ c.high = 100 /\ c.low = 100 /\ c.close = 100
        \/ c.high = 200 /\ c.low = 100 /\ c.close = 200
        \/ c.high = 200 /\ c.low = 50 /\ c.close = 50}

NoCandle == [high |-> 0, low |-> 0, close |-> 0]

\* Signal.metadata: the three keys the engine reads
EmptyMeta == [stop_loss |-> NoneR, take_profit |-> NoneR, position_size_pct |-> NoneR]

\* a BUY with both exit levels, and one sized by position_size_pct
ExitMeta == [stop_loss |-> R(75), take_profit |-> R(150), position_size_pct |-> NoneR]
SizedMeta == [stop_loss |-> NoneR, take_profit |-> NoneR, position_size_pct |-> R(-100)]

\* half of the cash with both exit levels, and a size of zero percent
HalfMeta == [stop_loss |-> R(75), take_profit |-> R(150), position_size_pct |-> R(50)]
ZeroMeta == [stop_loss |-> NoneR, take_profit |-> NoneR, position_size_pct |-> R(0)]

MetaSet == {EmptyMeta, ExitMeta}

SignalType == {"BUY", "SELL", "HOLD", "CLOSE_LONG", "CLOSE_SHORT", "NO_SIGNAL"}

\* BUY, SELL and HOLD for the first symbol, plain BUY for the second
SignalSet ==
    {s \in [type : SignalType, symbol : Symbols, metadata : MetaSet] :
        /\ s.type \in {"BUY", "SELL", "HOLD"}
        /\ s.type # "BUY" => s.metadata = EmptyMeta
        /\ s.symbol # "BTC" => s.type = "BUY" /\ s.metadata = EmptyMeta}

\* signals of a strategy that sizes its orders itself
SizedSignals ==
    {s \in [type : {"BUY", "SELL"}, symbol : {"BTC"}, metadata : {EmptyMeta, SizedMeta}] :
        (s.type = "BUY") = (s.metadata = SizedMeta)}

\* signals of a strategy that sizes some of its orders: a BUY without a
\* size, with half of the cash, or with zero percent of it
OpenSignals ==
    {s \in [type : {"BUY", "SELL"}, symbol : {"BTC"},
            metadata : {EmptyMeta, HalfMeta, ZeroMeta}] :
        s.type = "SELL" => s.metadata = EmptyMeta}

\* a date later than every row of the series
FarDate == 1000

\* BacktestConfig values the engine reads: one position with both fees and
\* without trailing stop, two positions without fees and with trailing stop
ConfigSet ==
    {c \in [start_date : {0},
            end_date : {FarDate},
            initial_capital : {R(1000)},
            commission : {R(0), Norm(1, 4)},
            slippage : {R(0), Norm(1, 3)},
            max_positions : {1, 2},
            trailing_stop : BOOLEAN,
            trailing_stop_percent : {R(75)}] :
        /\ (c.slippage.n = 0) = (c.commission.n = 0)
        /\ (c.max_positions = 2) = c.trailing_stop
        /\ (c.max_positions = 2) = (c.commission.n = 0)}

(* ------------------------------- state --------------------------------- *)
VARIABLES
    config,            \* BacktestEngine.config
    cash,              \* BacktestEngine.cash
    positions,         \* BacktestEngine.positions, in dict insertion order
    trades,            \* BacktestEngine.trades
    equity_curve,      \* BacktestEngine.equity_curve
    peak_equity,       \* BacktestEngine.peak_equity
    trade_counter,     \* BacktestEngine.trade_counter
    position_counter,  \* BacktestEngine.position_counter
    pc,                \* position of run() / _run_event_driven
    i,                 \* number of candles replayed so far in this run
    candle,            \* current_candle of the loop body
    nsig,              \* signals of the current candle replayed so far
    tape,              \* the price series and the strategy's signals, as replayed
    result,            \* BacktestResult of the latest completed run
    first,             \* BacktestResult of the first completed run
    run_no,            \* number of run() calls made on this engine
    data,              \* the DataFrame of the strategy's first data source
    strategy,          \* the strategy's state and the signals it emitted last
    peer,              \* a second BacktestEngine instance with its own run
    vector,            \* the locals of run_vectorized (equity, position, entry_price)
    portfolio,         \* a PortfolioManager: its risk_config, state and closed_trades
    sizing,            \* a PositionSize rule, the arguments of calculate_size, its result
    aliased            \* the latest BacktestResult holds the engine's own list objects

engine == <<cash, positions, trades, equity_curve, peak_equity, trade_counter, position_counter>>
vars == <<config, cash, positions, trades, equity_curve, peak_equity, trade_counter,
          position_counter, pc, i, candle, nsig, tape, result, first, run_no,
          data, strategy, peer, vector, portfolio, sizing, aliased>>

(* ---------------------------- the price series ------------------------- *)
\* first index of the replay loop: range(max(50, len(data.columns)), ...)
WarmUp(d) == IF d.columns > 50 THEN d.columns ELSE 50

\* rows are stamped 0, 1, 2, ... in milliseconds, or carry no timestamp at
\* all and are addressed by their position
Stamped(d) == d.timestamp # "none"

\* _filter_data_by_date: the rows inside [start_date, end_date]
KeptRows(d, c) ==
    IF Stamped(d)
    THEN {k \in 0..(d.rows - 1) : c.start_date <= k /\ k <= c.end_date}
    ELSE 0..(d.rows - 1)

\* total_candles of _run_event_driven
TotalCandles(d, c) == Cardinality(KeptRows(d, c))

\* timestamp of row idx of the filtered frame
TimestampAt(d, c, idx) ==
    IF Stamped(d) /\ c.start_date > 0 THEN c.start_date + idx ELSE idx

\* a loaded series long enough for MaxCandles replayed candles
FullData == [sources |-> 1, rows |-> 50 + MaxCandles, columns |-> 5,
             timestamp |-> "none"]

\* what a signal generator did when called: it raised, or it returned for
\* every symbol a series whose last element is true (flagged) or false
Quiet == [raised |-> FALSE, flagged |-> {}]

\* a strategy that has not generated anything: StrategyState counters, the
\* close of the last row of the series loaded in its data source, the loop
\* index it was last called at with what its generators did and what it emitted
IdleStrategy ==
    [errors |-> 0, signals_generated |-> 0, latest_price |-> 100,
     at |-> -1, buy |-> Quiet, sell |-> Quiet, signals |-> <<>>]

(* --------------------------- types.py methods -------------------------- *)
\* Signal.is_actionable
IsActionable(sig) == sig.type \notin {"HOLD", "NO_SIGNAL"}

\* BacktestPosition.calculate_pnl
CalculatePnl(pos, price) ==
    IF pos.side = "LONG"
    THEN RMul(RSub(price, pos.entry_price), pos.size)
    ELSE RMul(RSub(pos.entry_price, price), pos.size)

\* BacktestPosition.calculate_pnl_percentage
CalculatePnlPercentage(pos, price) ==
    IF pos.side = "LONG"
    THEN RMul(RDiv(RSub(price, pos.entry_price), pos.entry_price), R(100))
    ELSE RMul(RDiv(RSub(pos.entry_price, price), pos.entry_price), R(100))

\* BacktestPosition.update_price_tracking
UpdatePriceTracking(pos, high, low) ==
    [pos EXCEPT !.highest_price = RMax(pos.highest_price, high),
                !.lowest_price = RMin(pos.lowest_price, low)]

\* BacktestPosition(...) with __post_init__
NewPosition(id, symbol, entry_price, size, entry_time, stop_loss, take_profit) ==
    [id |-> id, symbol |-> symbol, side |-> "LONG", entry_price |-> entry_price,
     size |-> size, entry_time |-> entry_time, stop_loss |-> stop_loss,
     take_profit |-> take_profit, trailing_stop |-> NoneR,
     highest_price |-> entry_price, lowest_price |-> entry_price]

(* ----------------------------- the ledger ------------------------------ *)
\* The fields of the engine that orders change, as one record
Ledger ==
    [cash |-> cash, positions |-> positions, trades |-> trades,
     trade_counter |-> trade_counter, position_counter |-> position_counter]

RemoveAt(s, k) == [j \in 1..(Len(s) - 1) |-> IF j < k THEN s[j] ELSE s[j + 1]]

IndexOfId(ps, id) ==
    IF \E k \in 1..Len(ps) : ps[k].id = id
    THEN CHOOSE k \in 1..Len(ps) : ps[k].id = id
    ELSE 0

\* position lookup that takes the first open position whatever its symbol
FirstBySymbol_AnyPosition(ps, symbol) ==
    IF ps # <<>> THEN 1 ELSE 0

\* first position of the dict whose symbol matches, 0 if none
FirstBySymbol(ps, symbol) ==
    IF \E k \in 1..Len(ps) : ps[k].symbol = symbol
    THEN CHOOSE k \in 1..Len(ps) :
            ps[k].symbol = symbol /\ \A j \in 1..(k - 1) : ps[j].symbol # symbol
    ELSE 0

\* _open_position charging the notional only
OpenPosition_NoEntryFee(L, sig, cndl, timestamp) ==
    LET pct == sig.metadata.position_size_pct
        position_value ==
            IF Truthy(pct)
            THEN RMul(L.cash, RDiv(pct, R(100)))
            ELSE RMul(L.cash, Norm(1, 10))
        entry_price == RMul(R(cndl.close), RAdd(R(1), config.slippage))
        size == RDiv(position_value, entry_price)
        commission == RMul(position_value, config.commission)
    IN  IF RLt(L.cash, RAdd(position_value, commission))
        THEN L
        ELSE [L EXCEPT
                !.cash = RSub(L.cash, position_value),
                !.position_counter = L.position_counter + 1,
                !.positions = Append(L.positions,
                    NewPosition(L.position_counter + 1, sig.symbol, entry_price, size,
                                timestamp, sig.metadata.stop_loss,
                                sig.metadata.take_profit))]

\* BacktestEngine._open_position
OpenPosition(L, sig, cndl, timestamp) ==
    LET pct == sig.metadata.position_size_pct
        position_value ==
            IF Truthy(pct)
            THEN RMul(L.cash, RDiv(pct, R(100)))
            ELSE RMul(L.cash, Norm(1, 10))
        entry_price == RMul(R(cndl.close), RAdd(R(1), config.slippage))
        size == RDiv(position_value, entry_price)
        commission == RMul(position_value, config.commission)
    IN  IF RLt(L.cash, RAdd(position_value, commission))
        THEN L
        ELSE [L EXCEPT
                !.cash = RSub(L.cash, RAdd(position_value, commission)),
                !.position_counter = L.position_counter + 1,
                !.positions = Append(L.positions,
                    NewPosition(L.position_counter + 1, sig.symbol, entry_price, size,
                                timestamp, sig.metadata.stop_loss,
                                sig.metadata.take_profit))]

\* BacktestTrade(...) as both close paths build it
NewTrade(id, position, exit_price, exit_time, pnl, trade_type, commission) ==
    [id |-> id, position_id |-> position.id, symbol |-> position.symbol,
     side |-> position.side, entry_price |-> position.entry_price,
     exit_price |-> exit_price, size |-> position.size,
     entry_time |-> position.entry_time, exit_time |-> exit_time, pnl |-> pnl,
     pnl_percentage |-> CalculatePnlPercentage(position, exit_price),
     trade_type |-> trade_type, commission |-> commission]

\* _close_position crediting the profit only, not the proceeds
ClosePosition_CreditPnl(L, sig, cndl, timestamp, trade_type) ==
    LET k == FirstBySymbol(L.positions, sig.symbol)
        position == L.positions[k]
        exit_price == RMul(R(cndl.close), RSub(R(1), config.slippage))
        position_value == RMul(exit_price, position.size)
        commission == RMul(position_value, config.commission)
        pnl == RSub(CalculatePnl(position, exit_price), commission)
    IN  IF k = 0 THEN L
        ELSE [L EXCEPT
                !.cash = RAdd(L.cash, pnl),
                !.trade_counter = L.trade_counter + 1,
                !.trades = Append(L.trades,
                    NewTrade(L.trade_counter + 1, position, exit_price, timestamp,
                             pnl, trade_type, commission)),
                !.positions = RemoveAt(L.positions, k)]

\* _close_position selling short when no position of the symbol is open
ClosePosition_ShortWhenFlat(L, sig, cndl, timestamp, trade_type) ==
    LET k == FirstBySymbol(L.positions, sig.symbol)
        position == L.positions[k]
        exit_price == RMul(R(cndl.close), RSub(R(1), config.slippage))
        position_value == RMul(exit_price, position.size)
        commission == RMul(position_value, config.commission)
        pnl == RSub(CalculatePnl(position, exit_price), commission)
    IN  IF k = 0
        THEN [L EXCEPT
                !.position_counter = L.position_counter + 1,
                !.positions = Append(L.positions,
                    [NewPosition(L.position_counter + 1, sig.symbol, exit_price,
                                 R(1), timestamp, NoneR, NoneR)
                        EXCEPT !.side = "SHORT"])]
        ELSE [L EXCEPT
                !.cash = RAdd(L.cash, RSub(position_value, commission)),
                !.trade_counter = L.trade_counter + 1,
                !.trades = Append(L.trades,
                    NewTrade(L.trade_counter + 1, position, exit_price, timestamp,
                             pnl, trade_type, commission)),
                !.positions = RemoveAt(L.positions, k)]

\* BacktestEngine._close_position
ClosePosition(L, sig, cndl, timestamp, trade_type) ==
    LET k == FirstBySymbol(L.positions, sig.symbol)
        position == L.positions[k]
        exit_price == RMul(R(cndl.close), RSub(R(1), config.slippage))
        position_value == RMul(exit_price, position.size)
        commission == RMul(position_value, config.commission)
        pnl == RSub(CalculatePnl(position, exit_price), commission)
    IN  IF k = 0 THEN L
        ELSE [L EXCEPT
                !.cash = RAdd(L.cash, RSub(position_value, commission)),
                !.trade_counter = L.trade_counter + 1,
                !.trades = Append(L.trades,
                    NewTrade(L.trade_counter + 1, position, exit_price, timestamp,
                             pnl, trade_type, commission)),
                !.positions = RemoveAt(L.positions, k)]

\* _close_position_at_price recording the trade without deleting the position
ClosePositionAtPrice_KeepsPosition(L, position, price, timestamp, trade_type) ==
    LET position_value == RMul(price, position.size)
        commission == RMul(position_value, config.commission)
        pnl == RSub(CalculatePnl(position, price), commission)
    IN  [L EXCEPT
            !.cash = RAdd(L.cash, RSub(position_value, commission)),
            !.trade_counter = L.trade_counter + 1,
            !.trades = Append(L.trades,
                NewTrade(L.trade_counter + 1, position, price, timestamp,
                         pnl, trade_type, commission))]

\* _close_position_at_price recording the pnl before the exit commission
ClosePositionAtPrice_GrossPnl(L, position, price, timestamp, trade_type) ==
    LET position_value == RMul(price, position.size)
        commission == RMul(position_value, config.commission)
        pnl == CalculatePnl(position, price)
    IN  [L EXCEPT
            !.cash = RAdd(L.cash, RSub(position_value, commission)),
            !.trade_counter = L.trade_counter + 1,
            !.trades = Append(L.trades,
                NewTrade(L.trade_counter + 1, position, price, timestamp,
                         pnl, trade_type, commission)),
            !.positions = RemoveAt(L.positions, IndexOfId(L.positions, position.id))]

\* BacktestEngine._close_position_at_price
ClosePositionAtPrice(L, position, price, timestamp, trade_type) ==
    LET position_value == RMul(price, position.size)
        commission == RMul(position_value, config.commission)
        pnl == RSub(CalculatePnl(position, price), commission)
    IN  [L EXCEPT
            !.cash = RAdd(L.cash, RSub(position_value, commission)),
            !.trade_counter = L.trade_counter + 1,
            !.trades = Append(L.trades,
                NewTrade(L.trade_counter + 1, position, price, timestamp,
                         pnl, trade_type, commission)),
            !.positions = RemoveAt(L.positions, IndexOfId(L.positions, position.id))]

\* _process_signal without the max_positions test
ProcessSignalOn_NoLimit(L, sig, cndl, timestamp) ==
    IF ~IsActionable(sig) THEN L
    ELSE IF sig.type = "BUY" THEN OpenPosition(L, sig, cndl, timestamp)
    ELSE IF sig.type \in {"SELL", "CLOSE_LONG", "CLOSE_SHORT"}
    THEN ClosePosition(L, sig, cndl, timestamp, "EXIT")
    ELSE L

\* _process_signal leaving CLOSE_SHORT without effect
ProcessSignalOn_CloseShortIgnored(L, sig, cndl, timestamp) ==
    IF ~IsActionable(sig) THEN L
    ELSE IF sig.type = "BUY" /\ Len(L.positions) >= config.max_positions THEN L
    ELSE IF sig.type = "BUY" THEN OpenPosition(L, sig, cndl, timestamp)
    ELSE IF sig.type = "SELL" THEN ClosePosition(L, sig, cndl, timestamp, "EXIT")
    ELSE IF sig.type = "CLOSE_LONG" THEN ClosePosition(L, sig, cndl, timestamp, "EXIT")
    ELSE L

\* BacktestEngine._process_signal
ProcessSignalOn(L, sig, cndl, timestamp) ==
    IF ~IsActionable(sig) THEN L
    ELSE IF sig.type = "BUY" /\ Len(L.positions) >= config.max_positions THEN L
    ELSE IF sig.type = "BUY" THEN OpenPosition(L, sig, cndl, timestamp)
    ELSE IF sig.type = "SELL" THEN ClosePosition(L, sig, cndl, timestamp, "EXIT")
    ELSE IF sig.type = "CLOSE_LONG" THEN ClosePosition(L, sig, cndl, timestamp, "EXIT")
    ELSE IF sig.type = "CLOSE_SHORT" THEN ClosePosition(L, sig, cndl, timestamp, "EXIT")
    ELSE L

\* the trigger tests with take profit tested before stop loss
ExitTrigger_TakeProfitFirst(position, high, low) ==
    IF Truthy(position.take_profit) /\ RLe(position.take_profit, high)
    THEN <<[position_id |-> position.id, trade_type |-> "TAKE_PROFIT",
            price |-> position.take_profit]>>
    ELSE IF Truthy(position.stop_loss) /\ RLe(low, position.stop_loss)
    THEN <<[position_id |-> position.id, trade_type |-> "STOP_LOSS",
            price |-> position.stop_loss]>>
    ELSE IF Truthy(position.trailing_stop) /\ RLe(low, position.trailing_stop)
    THEN <<[position_id |-> position.id, trade_type |-> "STOP_LOSS",
            price |-> position.trailing_stop]>>
    ELSE <<>>

\* the trigger tests with a stop loss filled at the candle's low
ExitTrigger_FillAtLow(position, high, low) ==
    IF Truthy(position.stop_loss) /\ RLe(low, position.stop_loss)
    THEN <<[position_id |-> position.id, trade_type |-> "STOP_LOSS", price |-> low]>>
    ELSE IF Truthy(position.take_profit) /\ RLe(position.take_profit, high)
    THEN <<[position_id |-> position.id, trade_type |-> "TAKE_PROFIT",
            price |-> position.take_profit]>>
    ELSE IF Truthy(position.trailing_stop) /\ RLe(low, position.trailing_stop)
    THEN <<[position_id |-> position.id, trade_type |-> "STOP_LOSS",
            price |-> position.trailing_stop]>>
    ELSE <<>>

\* the first loop of _check_exit_orders: one trigger per position at most
ExitTrigger(position, high, low) ==
    IF Truthy(position.stop_loss) /\ RLe(low, position.stop_loss)
    THEN <<[position_id |-> position.id, trade_type |-> "STOP_LOSS",
            price |-> position.stop_loss]>>
    ELSE IF Truthy(position.take_profit) /\ RLe(position.take_profit, high)
    THEN <<[position_id |-> position.id, trade_type |-> "TAKE_PROFIT",
            price |-> position.take_profit]>>
    ELSE IF Truthy(position.trailing_stop) /\ RLe(low, position.trailing_stop)
    THEN <<[position_id |-> position.id, trade_type |-> "STOP_LOSS",
            price |-> position.trailing_stop]>>
    ELSE <<>>

RECURSIVE PositionsToClose(_, _, _)
PositionsToClose(ps, high, low) ==
    IF ps = <<>> THEN <<>>
    ELSE ExitTrigger(Head(ps), high, low) \o PositionsToClose(Tail(ps), high, low)

\* the second loop of _check_exit_orders
RECURSIVE CloseAll(_, _, _)
CloseAll(L, to_close, timestamp) ==
    IF to_close = <<>> THEN L
    ELSE LET t == Head(to_close)
             k == IndexOfId(L.positions, t.position_id)
             L1 == IF k = 0 THEN L
                   ELSE ClosePositionAtPrice(L, L.positions[k], t.price, timestamp,
                                             t.trade_type)
         IN  CloseAll(L1, Tail(to_close), timestamp)

\* BacktestEngine._check_exit_orders
CheckExitOrdersOn(L, high, low, timestamp) ==
    CloseAll(L, PositionsToClose(L.positions, R(high), R(low)), timestamp)

\* _update_position_prices with the trailing stop recomputed from the
\* candle's high on every candle
TrackPosition_FromCandleHigh(pos, high, low) ==
    LET p1 == UpdatePriceTracking(pos, R(high), R(low))
        new_trailing ==
            RMul(R(high), RSub(R(1), RDiv(config.trailing_stop_percent, R(100))))
    IN  IF config.trailing_stop /\ p1.side = "LONG"
        THEN [p1 EXCEPT !.trailing_stop = new_trailing]
        ELSE p1

\* BacktestEngine._update_position_prices, for one position
TrackPosition(pos, high, low) ==
    LET p1 == UpdatePriceTracking(pos, R(high), R(low))
        new_trailing ==
            RMul(p1.highest_price,
                 RSub(R(1), RDiv(config.trailing_stop_percent, R(100))))
    IN  IF config.trailing_stop /\ p1.side = "LONG"
           /\ (IsNone(p1.trailing_stop) \/ RLt(p1.trailing_stop, new_trailing))
        THEN [p1 EXCEPT !.trailing_stop = new_trailing]
        ELSE p1

\* _record_equity valuing the open positions at their entry prices
EquityPointOf_AtEntryPrice(csh, ps, peak_eq, ts, close) ==
    LET position_value ==
            RSum([k \in 1..Len(ps) |-> RMul(ps[k].size, ps[k].entry_price)])
        equity == RAdd(csh, position_value)
        peak == RMax(peak_eq, equity)
        drawdown == RSub(peak, equity)
        drawdown_pct ==
            IF RLt(R(0), peak) THEN RMul(RDiv(drawdown, peak), R(100)) ELSE R(0)
    IN  [timestamp |-> ts, equity |-> equity, cash |-> csh,
         position_value |-> position_value, drawdown |-> drawdown,
         drawdown_percentage |-> drawdown_pct]

\* the EquityPoint _record_equity builds from an engine's cash, open
\* positions and peak equity
EquityPointOf(csh, ps, peak_eq, ts, close) ==
    LET position_value ==
            RSum([k \in 1..Len(ps) |-> RMul(ps[k].size, R(close))])
        equity == RAdd(csh, position_value)
        peak == RMax(peak_eq, equity)
        drawdown == RSub(peak, equity)
        drawdown_pct ==
            IF RLt(R(0), peak) THEN RMul(RDiv(drawdown, peak), R(100)) ELSE R(0)
    IN  [timestamp |-> ts, equity |-> equity, cash |-> csh,
         position_value |-> position_value, drawdown |-> drawdown,
         drawdown_percentage |-> drawdown_pct]

\* _record_equity with the peak taken from the initial capital and the
\* current equity only
EquityPointAt_PeakFromCapital(timestamp, close) ==
    LET position_value ==
            RSum([k \in 1..Len(positions) |-> RMul(positions[k].size, R(close))])
        equity == RAdd(cash, position_value)
        peak == RMax(config.initial_capital, equity)
        drawdown == RSub(peak, equity)
        drawdown_pct ==
            IF RLt(R(0), peak) THEN RMul(RDiv(drawdown, peak), R(100)) ELSE R(0)
    IN  [timestamp |-> timestamp, equity |-> equity, cash |-> cash,
         position_value |-> position_value, drawdown |-> drawdown,
         drawdown_percentage |-> drawdown_pct]

\* BacktestEngine._record_equity
EquityPointAt(timestamp, close) ==
    EquityPointOf(cash, positions, peak_equity, timestamp, close)

(* --------------------------- metrics (run end) ------------------------- *)
\* BacktestTrade.is_winner
IsWinner(t) == RLt(R(0), t.pnl)

RECURSIVE RMaxSeq(_)
RMaxSeq(s) == IF Len(s) = 1 THEN s[1] ELSE RMax(Head(s), RMaxSeq(Tail(s)))

\* float('inf')
Infinity == [n |-> 1, d |-> 0]

RAbs(a) == [n |-> Abs(a.n), d |-> a.d]

Max(a, b) == IF a >= b THEN a ELSE b

DefaultMetrics ==
    [total_trades |-> 0, winning_trades |-> 0, losing_trades |-> 0,
     profit_factor |-> R(0), total_return |-> R(0), max_drawdown |-> R(0),
     max_drawdown_duration_days |-> 0]

\* calculate_profit_factor answering 0.0 whenever there is no gross loss
CalculateProfitFactor_ZeroWithoutLoss(gross_profit, gross_loss) ==
    IF gross_loss = R(0)
    THEN R(0)
    ELSE RAbs(RDiv(gross_profit, gross_loss))

\* BacktestMetrics.calculate_profit_factor
CalculateProfitFactor(gross_profit, gross_loss) ==
    IF gross_loss = R(0)
    THEN IF RLt(R(0), gross_profit) THEN Infinity ELSE R(0)
    ELSE RAbs(RDiv(gross_profit, gross_loss))

\* the trade statistics of _calculate_metrics: wins holds the pnl of the
\* trades with is_winner(), losses the pnl of all the others
TradeMetrics(ts) ==
    LET pnl == [k \in 1..Len(ts) |-> ts[k].pnl]
        wins == SelectSeq(pnl, LAMBDA x : RLt(R(0), x))
        losses == SelectSeq(pnl, LAMBDA x : ~RLt(R(0), x))
        winning_trades == Cardinality({k \in 1..Len(ts) : IsWinner(ts[k])})
        gross_profit == IF wins # <<>> THEN RSum(wins) ELSE R(0)
        gross_loss == IF losses # <<>> THEN RAbs(RSum(losses)) ELSE R(0)
    IN  [DefaultMetrics EXCEPT
            !.total_trades = Len(ts),
            !.winning_trades = winning_trades,
            !.losing_trades = Len(ts) - winning_trades,
            !.profit_factor = CalculateProfitFactor(gross_profit, gross_loss)]

\* the loop of _calculate_max_drawdown_duration from point k on
RECURSIVE DrawdownScan(_, _, _, _)
DrawdownScan(ec, k, max_duration, current_duration) ==
    IF k > Len(ec)
    THEN [max_duration |-> max_duration, current_duration |-> current_duration]
    ELSE IF RLt(R(0), ec[k].drawdown)
         THEN DrawdownScan(ec, k + 1, max_duration, current_duration + 1)
         ELSE DrawdownScan(ec, k + 1, Max(max_duration, current_duration), 0)

\* _calculate_max_drawdown_duration returning the longest run that has
\* ended, without the run in progress at the last point
MaxDrawdownDuration_EndedRunsOnly(ec) ==
    IF ec = <<>> THEN 0
    ELSE DrawdownScan(ec, 1, 0, 0).max_duration

\* BacktestEngine._calculate_max_drawdown_duration
MaxDrawdownDuration(ec) ==
    IF ec = <<>> THEN 0
    ELSE LET end == DrawdownScan(ec, 1, 0, 0)
         IN  Max(end.max_duration, end.current_duration)

\* the equity-curve statistics of _calculate_metrics (total return, max
\* drawdown and its duration), left at their defaults for an empty curve
EquityMetrics(m, ec) ==
    IF ec = <<>> THEN m
    ELSE [m EXCEPT
            !.total_return = RSub(ec[Len(ec)].equity, config.initial_capital),
            !.max_drawdown = RMaxSeq([k \in 1..Len(ec) |-> ec[k].drawdown]),
            !.max_drawdown_duration_days = MaxDrawdownDuration(ec)]

\* _calculate_metrics without the early return for an empty trade list: the
\* equity-curve metrics are computed whether or not a trade was closed
MetricsOf_EquityWithoutTrades(ts, ec) ==
    EquityMetrics(TradeMetrics(ts), ec)

\* the metrics _calculate_metrics derives from an engine's trades and equity
\* curve: the defaults when no trade was closed
MetricsOf(ts, ec) ==
    IF ts = <<>> THEN DefaultMetrics
    ELSE EquityMetrics(TradeMetrics(ts), ec)

\* BacktestEngine._calculate_metrics
CalculateMetrics == MetricsOf(trades, equity_curve)

\* _calculate_metrics divides the total return by initial_capital once there
\* are trades and equity points: ZeroDivisionError for a capital of zero
MetricsRaise ==
    trades # <<>> /\ equity_curve # <<>> /\ config.initial_capital.n = 0

\* no BacktestResult returned yet
NoResult == [returned |-> FALSE, trades |-> <<>>, equity_curve |-> <<>>,
             metrics |-> DefaultMetrics, positions |-> <<>>]

(* ------------------------------- actions ------------------------------- *)
\* run_vectorized has not been called
NoVector == [symbols |-> {}, equity |-> <<>>, position |-> R(0), entry_price |-> R(0)]

\* the fields of a second engine constructed with the same configuration,
\* its position in run() and the series and signals it replays
NewPeer(c, tp) ==
    [cash |-> c.initial_capital, positions |-> <<>>, trades |-> <<>>,
     equity_curve |-> <<>>, peak_equity |-> c.initial_capital,
     trade_counter |-> 0, position_counter |-> 0,
     pc |-> "idle", i |-> 0, candle |-> NoCandle, nsig |-> 0, tape |-> tp,
     result |-> NoResult]

\* a freshly constructed engine with one of the configurations, and the
\* strategy's series before any run
\* no PortfolioManager constructed, no calculate_size call made
NoPortfolio == [constructed |-> FALSE]
NoSizing == [called |-> FALSE]

Start(configs, frames, strategies, tapes, peer_tapes) ==
    /\ config \in configs
    /\ data \in frames
    /\ strategy \in strategies
    /\ cash = config.initial_capital
    /\ positions = <<>>
    /\ trades = <<>>
    /\ equity_curve = <<>>
    /\ peak_equity = config.initial_capital
    /\ trade_counter = 0
    /\ position_counter = 0
    /\ pc = "idle"
    /\ i = 0
    /\ candle = NoCandle
    /\ nsig = 0
    /\ tape \in tapes
    /\ result = NoResult
    /\ first = NoResult
    /\ run_no = 0
    /\ peer \in {NewPeer(config, tp) : tp \in peer_tapes}
    /\ vector = NoVector
    /\ portfolio = NoPortfolio
    /\ sizing = NoSizing
    /\ aliased = FALSE

Init == Start(ConfigSet, {FullData}, {IdleStrategy}, {<<>>}, {<<>>})

\* reset that leaves the peak equity of the previous run in place
Reset_KeepPeak ==
    /\ cash' = config.initial_capital
    /\ positions' = <<>>
    /\ trades' = <<>>
    /\ equity_curve' = <<>>
    /\ peak_equity' = peak_equity
    /\ trade_counter' = 0
    /\ position_counter' = 0
    /\ aliased' = FALSE

\* reset() leaving the id counters as they are
Reset_KeepCounters ==
    /\ cash' = config.initial_capital
    /\ positions' = <<>>
    /\ trades' = <<>>
    /\ equity_curve' = <<>>
    /\ peak_equity' = config.initial_capital
    /\ trade_counter' = trade_counter
    /\ position_counter' = position_counter
    /\ aliased' = FALSE

\* reset() emptying the lists it holds instead of binding new ones
Reset_ClearInPlace ==
    /\ cash' = config.initial_capital
    /\ positions' = <<>>
    /\ trades' = <<>>
    /\ equity_curve' = <<>>
    /\ peak_equity' = config.initial_capital
    /\ trade_counter' = 0
    /\ position_counter' = 0
    /\ aliased' = aliased

\* BacktestEngine.reset: trades and equity_curve are bound to new, empty
\* lists, so a result returned before no longer shares them
Reset ==
    /\ cash' = config.initial_capital
    /\ positions' = <<>>
    /\ trades' = <<>>
    /\ equity_curve' = <<>>
    /\ peak_equity' = config.initial_capital
    /\ trade_counter' = 0
    /\ position_counter' = 0
    /\ aliased' = FALSE

\* _filter_data_by_date converts the timestamp column of the frame it is given
FilterDataByDate(d) ==
    [d EXCEPT !.timestamp = IF @ = "ms" THEN "datetime" ELSE @]

\* run() entering the loop at the first row, without warm-up
Run_NoWarmUp ==
    /\ Reset
    /\ IF data.sources = 0 \/ data.rows = 0
       THEN /\ pc' = "failed"
            /\ UNCHANGED <<i, data>>
       ELSE /\ pc' = "loop"
            /\ i' = 0
            /\ data' = FilterDataByDate(data)
    /\ candle' = NoCandle
    /\ nsig' = 0
    /\ run_no' = run_no + 1
    /\ UNCHANGED <<config, portfolio, sizing, peer, vector, tape, result, first, strategy>>

\* run(): reset, ValueError without a data source or without rows, else filter
\* the series by date and enter the replay loop at the warm-up index
Run ==
    /\ Reset
    /\ IF data.sources = 0 \/ data.rows = 0
       THEN /\ pc' = "failed"
            /\ UNCHANGED <<i, data>>
       ELSE /\ pc' = "loop"
            /\ i' = WarmUp(data)
            /\ data' = FilterDataByDate(data)
    /\ candle' = NoCandle
    /\ nsig' = 0
    /\ run_no' = run_no + 1
    /\ UNCHANGED <<config, portfolio, sizing, peer, vector, tape, result, first, strategy>>

\* timestamp of the candle the loop is at
timestamp == TimestampAt(data, config, i)

SetLedger(L) ==
    /\ cash' = L.cash
    /\ positions' = L.positions
    /\ trades' = L.trades
    /\ trade_counter' = L.trade_counter
    /\ position_counter' = L.position_counter

\* loop body, step 1: read the candle and run _check_exit_orders
CheckExitOrders(c) ==
    /\ pc = "loop"
    /\ i < TotalCandles(data, config)
    /\ candle' = c
    /\ SetLedger(CheckExitOrdersOn(Ledger, c.high, c.low, timestamp))
    /\ pc' = "track"
    /\ UNCHANGED <<config, aliased, portfolio, sizing, peer, vector, equity_curve, peak_equity, i, nsig, result, first, run_no,
                   data, strategy>>

\* loop body, step 2: _update_position_prices
UpdatePositionPrices ==
    /\ pc = "track"
    /\ positions' = [k \in 1..Len(positions) |->
                        TrackPosition(positions[k], candle.high, candle.low)]
    /\ pc' = "signals"
    /\ nsig' = 0
    /\ UNCHANGED <<config, aliased, portfolio, sizing, peer, vector, cash, trades, equity_curve, peak_equity, trade_counter,
                   position_counter, i, candle, tape, result, first, run_no,
                   data, strategy>>

\* loop body, step 4: _process_signal for the next signal of the list
ProcessSignal(sig) ==
    /\ pc = "signals"
    /\ sig.type = "BUY" => position_counter < MaxOpens
    /\ SetLedger(ProcessSignalOn(Ledger, sig, candle, timestamp))
    /\ UNCHANGED <<config, aliased, portfolio, sizing, peer, vector, equity_curve, peak_equity, pc, i, candle, result, first, run_no,
                   data>>

\* loop body with the exit-order check moved behind the signals of the candle
RecordEquity_ExitCheckLast ==
    /\ pc = "signals"
    /\ SetLedger(CheckExitOrdersOn(Ledger, candle.high, candle.low, timestamp))
    /\ LET point == EquityPointAt(timestamp, candle.close)
       IN  /\ equity_curve' = Append(equity_curve, point)
           /\ peak_equity' = RMax(peak_equity, point.equity)
    /\ i' = i + 1
    /\ pc' = "loop"
    /\ candle' = NoCandle
    /\ UNCHANGED <<config, aliased, portfolio, sizing, peer, vector, nsig, tape, result, first, run_no, data, strategy>>

\* loop body, step 5: _record_equity, then on to the next candle
RecordEquity ==
    /\ pc = "signals"
    /\ LET point == EquityPointAt(timestamp, candle.close)
       IN  /\ equity_curve' = Append(equity_curve, point)
           /\ peak_equity' = RMax(peak_equity, point.equity)
    /\ i' = i + 1
    /\ pc' = "loop"
    /\ candle' = NoCandle
    /\ UNCHANGED <<config, aliased, portfolio, sizing, peer, vector, cash, positions, trades, trade_counter, position_counter,
                   nsig, tape, result, first, run_no, data, strategy>>

\* run(): the loop is over, metrics are computed and the result returned
Finish ==
    /\ pc = "loop"
    /\ i >= TotalCandles(data, config)
    /\ IF MetricsRaise
       THEN /\ pc' = "failed"
            /\ UNCHANGED <<result, aliased>>
       ELSE /\ pc' = "done"
            /\ result' = [returned |-> TRUE, trades |-> trades,
                          equity_curve |-> equity_curve,
                          metrics |-> CalculateMetrics, positions |-> <<>>]
            /\ aliased' = TRUE
    /\ UNCHANGED <<config, portfolio, sizing, peer, vector, engine, i, candle, nsig, tape, run_no, data, strategy>>

(* ------------------- one run() on a fresh engine ------------------------ *)
RunOnce == pc = "idle" /\ Run

ReplayCandle == \E c \in Candles : CheckExitOrders(c) /\ UNCHANGED tape

\* the strategy run with trailing stops trades the first symbol only and
\* sets no exit levels of its own
ReplaySignal ==
    \E sig \in SignalSet :
        /\ config.trailing_stop => (sig.symbol = "BTC" /\ sig.metadata = EmptyMeta)
        /\ ProcessSignal(sig)
        /\ UNCHANGED <<nsig, tape, strategy>>

FinishOnce == Finish /\ UNCHANGED first

Next ==
    \/ RunOnce
    \/ ReplayCandle
    \/ UpdatePositionPrices
    \/ ReplaySignal
    \/ RecordEquity
    \/ FinishOnce

Spec == Init /\ [][Next]_vars

(* ------------- one run() with a strategy that sizes its orders ---------- *)
SizedSignal ==
    \E sig \in SizedSignals : ProcessSignal(sig) /\ UNCHANGED <<nsig, tape, strategy>>

NextSized ==
    \/ RunOnce
    \/ ReplayCandle
    \/ UpdatePositionPrices
    \/ SizedSignal
    \/ RecordEquity
    \/ FinishOnce

SpecSized == Init /\ [][NextSized]_vars

(* ------------- the same engine run again on the same data --------------- *)
MaxRuns == 2

\* the series and signals the replayed runs are drawn from
RerunCandles ==
    {c \in Candles :
        \/ c.high = 100 /\ c.low = 100
        \/ c.high = 200 /\ c.low = 50}

RerunSignals ==
    {s \in SignalSet :
        s.symbol = "BTC" /\ s.type \in {"BUY", "SELL"} /\ s.metadata = EmptyMeta}

\* candles replayed so far in this run
Replayed == i - WarmUp(data)

\* the first run fixes the price series and the strategy's signals
RunFirst == pc = "idle" /\ Run

RecordCandle ==
    /\ run_no = 1
    /\ \E c \in RerunCandles :
        /\ CheckExitOrders(c)
        /\ tape' = Append(tape, [candle |-> c, signals |-> <<>>])

\* number of signals on the tape
RECURSIVE TapeSignals(_)
TapeSignals(t) == IF t = <<>> THEN 0 ELSE Len(Head(t).signals) + TapeSignals(Tail(t))

RecordSignal ==
    /\ run_no = 1
    /\ TapeSignals(tape) < MaxSignals
    /\ \E sig \in RerunSignals :
        /\ ProcessSignal(sig)
        /\ nsig' = nsig + 1
        /\ tape' = [tape EXCEPT ![Len(tape)].signals = Append(@, sig)]
        /\ UNCHANGED strategy

EquityFirst == run_no = 1 /\ RecordEquity

FinishFirst == run_no = 1 /\ Finish /\ first' = result'

\* later runs replay the same series with the same strategy
RunAgain == pc = "done" /\ run_no < MaxRuns /\ Run

AgainCandle ==
    /\ run_no > 1
    /\ CheckExitOrders(tape[Replayed + 1].candle)
    /\ UNCHANGED tape

AgainSignal ==
    /\ run_no > 1
    /\ pc = "signals"
    /\ nsig < Len(tape[Replayed + 1].signals)
    /\ ProcessSignal(tape[Replayed + 1].signals[nsig + 1])
    /\ nsig' = nsig + 1
    /\ UNCHANGED <<tape, strategy>>

EquityAgain ==
    /\ run_no > 1
    /\ pc = "signals"
    /\ nsig = Len(tape[Replayed + 1].signals)
    /\ RecordEquity

FinishAgain == run_no > 1 /\ Finish /\ UNCHANGED first

\* reset() called by the owner of the engine between two runs
ResetCall ==
    /\ pc = "done"
    /\ engine # <<config.initial_capital, <<>>, <<>>, <<>>, config.initial_capital, 0, 0>>
    /\ Reset
    /\ UNCHANGED <<config, portfolio, sizing, peer, vector, pc, i, candle, nsig, tape, result, first,
                   run_no, data, strategy>>

NextRerun ==
    \/ RunFirst
    \/ RecordCandle
    \/ UpdatePositionPrices
    \/ RecordSignal
    \/ EquityFirst
    \/ FinishFirst
    \/ RunAgain
    \/ AgainCandle
    \/ AgainSignal
    \/ EquityAgain
    \/ FinishAgain
    \/ ResetCall

SpecRerun == Init /\ [][NextRerun]_vars

(* --------- one run() over series and configurations of every kind ------- *)
\* no source, no rows, fewer rows than the warm-up, or a full series; five
\* OHLCV columns or more columns than the default warm-up; with a timestamp
\* column in milliseconds or addressed by position
DataSet ==
    {d \in [sources : {0, 1}, rows : {0, 50, 50 + MaxCandles}, columns : {5, 51},
            timestamp : {"none", "ms"}] :
        (d.sources = 0 \/ d.rows = 0) => (d.columns = 5 /\ d.timestamp = "none")}

PlainConfig ==
    [start_date |-> 0, end_date |-> FarDate, initial_capital |-> R(1000),
     commission |-> R(0), slippage |-> R(0), max_positions |-> 1,
     trailing_stop |-> FALSE, trailing_stop_percent |-> R(75)]

\* the plain configuration, two date windows (one after every row, one
\* cutting the first row), and one configuration per rule of validate()
DataConfigSet ==
    {PlainConfig,
     [PlainConfig EXCEPT !.start_date = 60],
     [PlainConfig EXCEPT !.start_date = 1],
     [PlainConfig EXCEPT !.start_date = FarDate],
     [PlainConfig EXCEPT !.initial_capital = R(0)],
     [PlainConfig EXCEPT !.commission = Norm(-1, 4)],
     [PlainConfig EXCEPT !.max_positions = 0]}

\* BacktestConfig.validate: the list of errors is empty
IsValid(c) ==
    /\ c.start_date < c.end_date
    /\ RLt(R(0), c.initial_capital)
    /\ RLe(R(0), c.commission)
    /\ c.max_positions >= 1

InitData == Start(DataConfigSet, DataSet, {IdleStrategy}, {<<>>}, {<<>>})

DataCandle == \E c \in RerunCandles : CheckExitOrders(c) /\ UNCHANGED tape

DataSignal ==
    \E sig \in RerunSignals : ProcessSignal(sig) /\ UNCHANGED <<nsig, tape, strategy>>

NextData ==
    \/ RunOnce
    \/ DataCandle
    \/ UpdatePositionPrices
    \/ DataSignal
    \/ RecordEquity
    \/ FinishOnce

SpecData == InitData /\ [][NextData]_vars

(* ------- one run() with the signals built by TradingStrategy ------------ *)
\* the series ends with one of these closes; a final close of 0 is falsy
LatestPrices == {0, 50, 100}

StrategySet == {[IdleStrategy EXCEPT !.latest_price = p] : p \in LatestPrices}

\* the last row may close at 0
StrategyCandles == Candles \cup {[high |-> 100, low |-> 50, close |-> 0]}

\* outcomes of generate_buy_signals / generate_sell_signals for one symbol
GeneratorOutcomes ==
    {[raised |-> TRUE, flagged |-> {}], Quiet, [raised |-> FALSE, flagged |-> {"BTC"}]}

\* TradingStrategy.get_latest_price: DataSource.get_price of the loaded series
GetLatestPrice(st, symbol) == R(st.latest_price)

\* one try block of generate_signals: the signals it appends
SignalsOf(st, type, outcome) ==
    IF outcome.raised \/ "BTC" \notin outcome.flagged THEN <<>>
    ELSE LET price == GetLatestPrice(st, "BTC")
         IN  IF Truthy(price)
             THEN <<[type |-> type, symbol |-> "BTC", price |-> price,
                     metadata |-> EmptyMeta]>>
             ELSE <<>>

\* StrategyState.record_error: the list keeps its last 100 entries
RecordError(n) == IF n + 1 > 100 THEN 100 ELSE n + 1

\* generate_signals that lets a generator's exception escape: nothing is
\* recorded and nothing emitted
GenerateSignals_FaultEscapes(st, buy, sell, idx) ==
    IF buy.raised \/ sell.raised
    THEN [st EXCEPT !.at = idx, !.buy = buy, !.sell = sell, !.signals = <<>>]
    ELSE LET emitted == SignalsOf(st, "BUY", buy) \o SignalsOf(st, "SELL", sell)
         IN  [st EXCEPT !.at = idx, !.buy = buy, !.sell = sell,
                        !.signals = emitted,
                        !.signals_generated = @ + Len(emitted)]

\* TradingStrategy.generate_signals called at loop index idx
GenerateSignals(st, buy, sell, idx) ==
    LET emitted == SignalsOf(st, "BUY", buy) \o SignalsOf(st, "SELL", sell)
        e1 == IF buy.raised THEN RecordError(st.errors) ELSE st.errors
        e2 == IF sell.raised THEN RecordError(e1) ELSE e1
    IN  [st EXCEPT !.at = idx, !.buy = buy, !.sell = sell,
                   !.signals = emitted,
                   !.signals_generated = @ + Len(emitted),
                   !.errors = e2]

InitStrategy == Start({PlainConfig}, {FullData}, StrategySet, {<<>>}, {<<>>})

\* the last row of the series is the one get_latest_price reads
StrategyCandle ==
    \E c \in StrategyCandles :
        /\ IF i = TotalCandles(data, config) - 1
           THEN c.close = strategy.latest_price
           ELSE c.close # 0
        /\ CheckExitOrders(c)
        /\ UNCHANGED tape

\* loop body, step 3: strategy.generate_signals
Generate ==
    /\ pc = "signals"
    /\ strategy.at # i
    /\ \E buy, sell \in GeneratorOutcomes :
        /\ buy.flagged # {} => position_counter < MaxOpens
        /\ strategy' = GenerateSignals(strategy, buy, sell, i)
    /\ UNCHANGED <<config, aliased, portfolio, sizing, peer, vector, engine, pc, i, candle, nsig, tape, result, first, run_no, data>>

ProcessGenerated ==
    /\ strategy.at = i
    /\ nsig < Len(strategy.signals)
    /\ ProcessSignal(strategy.signals[nsig + 1])
    /\ nsig' = nsig + 1
    /\ UNCHANGED <<tape, strategy>>

EquityGenerated ==
    /\ strategy.at = i
    /\ nsig = Len(strategy.signals)
    /\ RecordEquity

NextStrategy ==
    \/ RunOnce
    \/ StrategyCandle
    \/ UpdatePositionPrices
    \/ Generate
    \/ ProcessGenerated
    \/ EquityGenerated
    \/ FinishOnce

SpecStrategy == InitStrategy /\ [][NextStrategy]_vars

(* ------------- two engine instances running at the same time ------------ *)
BuyBTC == [type |-> "BUY", symbol |-> "BTC", metadata |-> EmptyMeta]
SellBTC == [type |-> "SELL", symbol |-> "BTC", metadata |-> EmptyMeta]

\* series of MaxCandles rows after the warm-up, each flat or wide, with a
\* strategy that buys on the first, third, ... row and sells on the others
TapeSet ==
    {tp \in [1..MaxCandles -> [candle : RerunCandles,
                               signals : {<<BuyBTC>>, <<SellBTC>>}]] :
        \A k \in 1..MaxCandles :
            tp[k].signals = IF k % 2 = 1 THEN <<BuyBTC>> ELSE <<SellBTC>>}

InitTwo == Start({PlainConfig}, {FullData}, {IdleStrategy}, TapeSet, TapeSet)

\* every variable of the first instance
own == <<config, cash, positions, trades, equity_curve, peak_equity, trade_counter,
         position_counter, pc, i, candle, nsig, tape, result, first, run_no,
         data, strategy, vector, portfolio, sizing, aliased>>

\* the first instance replays its series
TwoRun == pc = "idle" /\ Run

TwoCandle == CheckExitOrders(tape[Replayed + 1].candle) /\ UNCHANGED tape

TwoSignal ==
    /\ pc = "signals"
    /\ nsig < Len(tape[Replayed + 1].signals)
    /\ ProcessSignal(tape[Replayed + 1].signals[nsig + 1])
    /\ nsig' = nsig + 1
    /\ UNCHANGED <<tape, strategy>>

TwoEquity ==
    /\ pc = "signals"
    /\ nsig = Len(tape[Replayed + 1].signals)
    /\ RecordEquity

\* the second instance's ledger with the position counter of the first
PeerLedger_SharedCounter ==
    [cash |-> peer.cash, positions |-> peer.positions, trades |-> peer.trades,
     trade_counter |-> peer.trade_counter, position_counter |-> position_counter]

\* the second instance's ledger: its own fields
PeerLedger ==
    [cash |-> peer.cash, positions |-> peer.positions, trades |-> peer.trades,
     trade_counter |-> peer.trade_counter, position_counter |-> peer.position_counter]

WithLedger(p, L) ==
    [p EXCEPT !.cash = L.cash, !.positions = L.positions, !.trades = L.trades,
              !.trade_counter = L.trade_counter,
              !.position_counter = L.position_counter]

\* the row the second instance is at
PeerEntry == peer.tape[peer.i - WarmUp(data) + 1]

\* run() on the second instance
PeerRun ==
    /\ peer.pc = "idle"
    /\ peer' = IF data.sources = 0 \/ data.rows = 0
               THEN [NewPeer(config, peer.tape) EXCEPT !.pc = "failed"]
               ELSE [NewPeer(config, peer.tape) EXCEPT !.pc = "loop",
                                                       !.i = WarmUp(data)]
    /\ UNCHANGED own

PeerCheckExitOrders ==
    /\ peer.pc = "loop"
    /\ peer.i < TotalCandles(data, config)
    /\ LET c == PeerEntry.candle
           L == CheckExitOrdersOn(PeerLedger, c.high, c.low,
                                  TimestampAt(data, config, peer.i))
       IN  peer' = [WithLedger(peer, L) EXCEPT !.candle = c, !.pc = "track"]
    /\ UNCHANGED own

PeerUpdatePositionPrices ==
    /\ peer.pc = "track"
    /\ peer' = [peer EXCEPT
                  !.positions = [k \in 1..Len(peer.positions) |->
                      TrackPosition(peer.positions[k], peer.candle.high,
                                    peer.candle.low)],
                  !.pc = "signals",
                  !.nsig = 0]
    /\ UNCHANGED own

PeerProcessSignal ==
    /\ peer.pc = "signals"
    /\ peer.nsig < Len(PeerEntry.signals)
    /\ LET sig == PeerEntry.signals[peer.nsig + 1]
           L == ProcessSignalOn(PeerLedger, sig, peer.candle,
                                TimestampAt(data, config, peer.i))
       IN  /\ sig.type = "BUY" => peer.position_counter < MaxOpens
           /\ peer' = [WithLedger(peer, L) EXCEPT !.nsig = @ + 1]
    /\ UNCHANGED own

PeerRecordEquity ==
    /\ peer.pc = "signals"
    /\ peer.nsig = Len(PeerEntry.signals)
    /\ LET point == EquityPointOf(peer.cash, peer.positions, peer.peak_equity,
                                  TimestampAt(data, config, peer.i),
                                  peer.candle.close)
       IN  peer' = [peer EXCEPT
                      !.equity_curve = Append(@, point),
                      !.peak_equity = RMax(@, point.equity),
                      !.i = @ + 1,
                      !.pc = "loop",
                      !.candle = NoCandle]
    /\ UNCHANGED own

PeerFinish ==
    /\ peer.pc = "loop"
    /\ peer.i >= TotalCandles(data, config)
    /\ peer' = [peer EXCEPT
                  !.pc = "done",
                  !.result = [returned |-> TRUE, trades |-> peer.trades,
                              equity_curve |-> peer.equity_curve,
                              metrics |-> MetricsOf(peer.trades, peer.equity_curve),
                              positions |-> <<>>]]
    /\ UNCHANGED own

NextTwo ==
    \/ TwoRun
    \/ TwoCandle
    \/ UpdatePositionPrices
    \/ TwoSignal
    \/ TwoEquity
    \/ FinishOnce
    \/ PeerRun
    \/ PeerCheckExitOrders
    \/ PeerUpdatePositionPrices
    \/ PeerProcessSignal
    \/ PeerRecordEquity
    \/ PeerFinish

SpecTwo == InitTwo /\ [][NextTwo]_vars

(* ------------------------------ properties ----------------------------- *)
Zero == R(0)

SameSymbolPair(ps) ==
    \E a, b \in 1..Len(ps) : a # b /\ ps[a].symbol = ps[b].symbol

\* C1: under initial_capital > 0 and commission >= 0, engine cash is >= 0
\* after every operation of an event-driven run.
C1_CashNeverNegative == RLe(Zero, cash)

\* C2: the number of open positions never exceeds config.max_positions, and
\* while it equals max_positions no step opens a further position.
C2_AtMostMaxPositions ==
    [][/\ Len(positions') <= config.max_positions
       /\ Len(positions) >= config.max_positions
            => Len(positions') <= Len(positions)]_vars

C2_Witness ==
    /\ pc = "signals"
    /\ config.max_positions = 2
    /\ Len(positions) = 2
    /\ position_counter = 2

\* C3: no two simultaneously open positions share a symbol.
C3_OnePositionPerSymbol == ~SameSymbolPair(positions)

\* the trades appended by the step
NewTrades == SubSeq(trades', Len(trades) + 1, Len(trades'))

TradesOf(ts, position_id) == {k \in 1..Len(ts) : ts[k].position_id = position_id}

StillOpen(ps, position_id) == \E k \in 1..Len(ps) : ps[k].id = position_id

\* the step is the exit-order check of the candle read into candle'
ExitStep == pc = "loop" /\ pc' = "track"

\* C4: an open LONG position with stop_loss and take_profit both set, on a
\* candle with low <= stop_loss and high >= take_profit, closes with
\* trade_type STOP_LOSS at the stop_loss price, never TAKE_PROFIT.
C4_StopLossBeforeTakeProfit ==
    [][ExitStep =>
        \A k \in 1..Len(positions) :
            LET p == positions[k]
            IN  (/\ p.side = "LONG"
                 /\ Truthy(p.stop_loss)
                 /\ Truthy(p.take_profit)
                 /\ RLe(R(candle'.low), p.stop_loss)
                 /\ RLe(p.take_profit, R(candle'.high)))
                => /\ ~StillOpen(positions', p.id)
                   /\ TradesOf(NewTrades, p.id) # {}
                   /\ \A t \in TradesOf(NewTrades, p.id) :
                        /\ NewTrades[t].trade_type = "STOP_LOSS"
                        /\ NewTrades[t].exit_price = p.stop_loss]_vars

C4_Witness ==
    /\ pc = "track"
    /\ ~config.trailing_stop
    /\ candle.low = 50
    /\ candle.high = 200
    /\ \E k \in 1..Len(trades) :
        /\ trades[k].exit_time = i
        /\ trades[k].trade_type = "STOP_LOSS"
        /\ trades[k].exit_price = R(75)

\* C5: with config.trailing_stop enabled, the stored trailing_stop of an open
\* LONG position never decreases from one step to the next while it stays open.
C5_TrailingStopRatchet ==
    [][config.trailing_stop =>
        \A k \in 1..Len(positions) : \A m \in 1..Len(positions') :
            (/\ positions[k].id = positions'[m].id
             /\ positions[k].side = "LONG"
             /\ ~IsNone(positions[k].trailing_stop))
            => /\ ~IsNone(positions'[m].trailing_stop)
               /\ RLe(positions[k].trailing_stop, positions'[m].trailing_stop)]_vars

C5_Witness ==
    /\ config.trailing_stop
    /\ pc = "signals"
    /\ i = 52
    /\ \E k \in 1..Len(positions) :
        /\ positions[k].entry_time = 50
        /\ positions[k].trailing_stop = R(50)
        /\ RLt(positions[k].entry_price, R(100))

\* largest equity among the first k recorded points
RunningPeak(k) == RMaxSeq([j \in 1..k |-> equity_curve[j].equity])

PercentOf(drawdown, peak) ==
    IF RLt(Zero, peak) THEN RMul(RDiv(drawdown, peak), R(100)) ELSE Zero

\* C6 as stated: every recorded drawdown is the largest recorded equity so far
\* minus the point's equity, and drawdown_percentage is that drawdown over that
\* peak times 100, the peak ranging over the recorded points only.
C6_DrawdownFromRecordedPeak ==
    \A k \in 1..Len(equity_curve) :
        /\ equity_curve[k].drawdown = RSub(RunningPeak(k), equity_curve[k].equity)
        /\ equity_curve[k].drawdown_percentage =
               PercentOf(equity_curve[k].drawdown, RunningPeak(k))

\* C6 amended: the peak is the larger of the initial capital and the largest
\* recorded equity so far; every recorded drawdown is that peak minus the
\* point's equity, and drawdown_percentage is the drawdown over that peak
\* times 100.
C6_DrawdownFromPeakSinceCapital ==
    \A k \in 1..Len(equity_curve) :
        LET peak == RMax(config.initial_capital, RunningPeak(k))
        IN  /\ equity_curve[k].drawdown = RSub(peak, equity_curve[k].equity)
            /\ equity_curve[k].drawdown_percentage =
                   PercentOf(equity_curve[k].drawdown, peak)

C6_Witness ==
    /\ Len(equity_curve) = 3
    /\ RLt(equity_curve[1].equity, config.initial_capital)
    /\ RLt(config.initial_capital, equity_curve[2].equity)
    /\ RLt(equity_curve[3].equity, equity_curve[2].equity)
    /\ RLt(Zero, equity_curve[3].drawdown)

\* notional and commission of an entry, from a position or its trade
EntryNotional(x) == RMul(x.size, x.entry_price)
EntryCommission(x) == RMul(EntryNotional(x), config.commission)

OpenNotional == RSum([k \in 1..Len(positions) |-> EntryNotional(positions[k])])

\* every commission charged so far: on each entry and on each exit
CommissionPaid ==
    RAdd(RSum([k \in 1..Len(positions) |-> EntryCommission(positions[k])]),
         RSum([k \in 1..Len(trades) |->
                  RAdd(EntryCommission(trades[k]), trades[k].commission)]))

\* realized profit and loss: as recorded (net of the exit commission) and
\* before commissions
NetRealized == RSum([k \in 1..Len(trades) |-> trades[k].pnl])
GrossRealized ==
    RSum([k \in 1..Len(trades) |->
             RMul(RSub(trades[k].exit_price, trades[k].entry_price), trades[k].size)])

LedgerTotal == RAdd(cash, RAdd(OpenNotional, CommissionPaid))

\* C7 as stated: cash plus the entry notional of the open positions plus all
\* commission paid so far equals initial_capital minus the net realized PnL.
C7_CashConservationAsStated ==
    LedgerTotal = RSub(config.initial_capital, NetRealized)

\* C7 amended: cash plus the entry notional of the open positions plus all
\* commission paid so far equals initial_capital plus the realized PnL before
\* commissions, the sum over the trades of (exit_price - entry_price) x size.
C7_CashConservation ==
    LedgerTotal = RAdd(config.initial_capital, GrossRealized)

C7_Witness ==
    /\ config.commission # Zero
    /\ positions # <<>>
    /\ Len(trades) = 1
    /\ RLt(Zero, GrossRealized)

\* C8: a second run of the same engine on the same config, price series and
\* signals returns the same trades, equity curve and metrics as the first.
C8_RerunSameResult ==
    (pc = "done" /\ run_no >= 2) => result = first

C8_Witness ==
    /\ pc = "done"
    /\ run_no = 2
    /\ result = first
    /\ Len(result.trades) >= 1
    /\ Len(result.equity_curve) = 3
    /\ RLt(config.initial_capital, result.equity_curve[3].equity)

\* one accepted BUY so far, closed by a SELL, under a config without fees
RoundTrip ==
    /\ config.commission = Zero
    /\ config.slippage = Zero
    /\ position_counter = 1
    /\ positions = <<>>
    /\ Len(trades) = 1
    /\ trades[1].trade_type = "EXIT"

\* C9: without commission and slippage, one default-sized BUY at close p1
\* closed by a SELL at close p2 leaves exactly one trade with
\* size = (initial_capital / 10) / p1 and pnl = (p2 - p1) x size, no open
\* position, and cash = initial_capital + pnl.
C9_RoundTrip ==
    RoundTrip =>
        LET t == trades[1]
        IN  /\ t.size = RDiv(RMul(config.initial_capital, Norm(1, 10)), t.entry_price)
            /\ t.pnl = RMul(RSub(t.exit_price, t.entry_price), t.size)
            /\ cash = RAdd(config.initial_capital, t.pnl)

C9_Witness ==
    /\ RoundTrip
    /\ trades[1].entry_price = R(100)
    /\ trades[1].exit_price = R(200)
    /\ trades[1].exit_time > trades[1].entry_time
    /\ cash = R(1100)

\* the one new trade of position p has the given price and type, and p is gone
ClosedAt(p, price, trade_type) ==
    /\ ~StillOpen(positions', p.id)
    /\ Cardinality(TradesOf(NewTrades, p.id)) = 1
    /\ \A t \in TradesOf(NewTrades, p.id) :
        /\ NewTrades[t].exit_price = price
        /\ NewTrades[t].trade_type = trade_type
        /\ NewTrades[t].exit_time = i
        /\ NewTrades[t].pnl =
               RSub(RMul(RSub(price, p.entry_price), p.size),
                    RMul(RMul(price, p.size), config.commission))

\* C10: on a candle with low <= stop_loss an open LONG position closes on that
\* candle at exactly stop_loss, tagged STOP_LOSS, with
\* pnl = (stop_loss - entry_price) x size minus the exit commission; otherwise,
\* with high >= take_profit, it closes at exactly take_profit tagged
\* TAKE_PROFIT; no position gets more than one exit trade on a candle.
C10_ExitAtTriggerPrice ==
    [][ExitStep =>
        \A k \in 1..Len(positions) :
            LET p == positions[k]
                stop_hit == Truthy(p.stop_loss) /\ RLe(R(candle'.low), p.stop_loss)
                target_hit == Truthy(p.take_profit) /\ RLe(p.take_profit, R(candle'.high))
            IN  /\ stop_hit => ClosedAt(p, p.stop_loss, "STOP_LOSS")
                /\ (~stop_hit /\ target_hit) => ClosedAt(p, p.take_profit, "TAKE_PROFIT")
                /\ Cardinality(TradesOf(NewTrades, p.id)) <= 1]_vars

C10_Witness ==
    /\ pc = "track"
    /\ config.commission # Zero
    /\ candle.low = 50
    /\ Len(trades) = 2
    /\ trades[1].trade_type = "TAKE_PROFIT"
    /\ trades[1].exit_price = R(150)
    /\ trades[2].trade_type = "STOP_LOSS"
    /\ trades[2].exit_price = R(75)
    /\ trades[2].exit_time = i
    /\ trades[2].commission # Zero

\* a BUY sized at twice the available cash
OversizedMeta == [stop_loss |-> NoneR, take_profit |-> NoneR, position_size_pct |-> R(200)]

\* every signal a strategy can hand to _process_signal
AnySignal ==
    [type : SignalType, symbol : Symbols,
     metadata : {EmptyMeta, ExitMeta, SizedMeta, OversizedMeta}]

\* notional plus entry commission of the order a BUY signal asks for
OrderCost(sig) ==
    LET pct == sig.metadata.position_size_pct
        notional == RMul(cash, IF Truthy(pct) THEN RDiv(pct, R(100)) ELSE Norm(1, 10))
    IN  RAdd(notional, RMul(notional, config.commission))

\* the signal is one the engine has to reject in the current state
IsRejected(sig) ==
    \/ /\ sig.type = "BUY"
       /\ \/ Len(positions) >= config.max_positions
          \/ RLt(cash, OrderCost(sig))
    \/ /\ sig.type \in {"SELL", "CLOSE_LONG", "CLOSE_SHORT"}
       /\ \A k \in 1..Len(positions) : positions[k].symbol # sig.symbol



\* C11: a BUY rejected for insufficient cash or for max_positions, and a
\* SELL/CLOSE for a symbol without open position, leave cash, positions,
\* trades and both counters exactly as they were (nothing is queued either:
\* the engine state after the signal is the state before it).
C11_RejectionIsNoOp ==
    pc = "signals" =>
        \A sig \in AnySignal :
            /\ sig.type = "BUY" => position_counter < MaxOpens
            /\ IsRejected(sig)
            => ProcessSignalOn(Ledger, sig, candle, timestamp) = Ledger

\* max_positions = 1 and a BTC position opened on this very candle: a BUY for
\* ETH, an oversized BUY and a SELL for ETH are all rejected here
C11_Witness ==
    /\ pc = "signals"
    /\ config.max_positions = 1
    /\ Len(positions) = 1
    /\ positions[1].symbol = "BTC"
    /\ positions[1].entry_time = timestamp
    /\ IsRejected([type |-> "BUY", symbol |-> "ETH", metadata |-> EmptyMeta])
    /\ IsRejected([type |-> "SELL", symbol |-> "ETH", metadata |-> EmptyMeta])
    /\ IsRejected([type |-> "BUY", symbol |-> "BTC", metadata |-> OversizedMeta])

\* no data source, no rows, or no row inside [start_date, end_date]
MissingData ==
    data.sources = 0 \/ data.rows = 0 \/ TotalCandles(data, config) = 0

\* C12: run() fails with a missing-data error and returns no result when the
\* strategy has no data source, the source holds no rows, or the series is
\* empty after the date filter.
C12_MissingDataFails == (run_no > 0 /\ MissingData) => ~result.returned

\* C13: a run started with a configuration that validate() rejects ends as a
\* failure of the whole run and returns no BacktestResult.
C13_InvalidConfigFails == (run_no > 0 /\ ~IsValid(config)) => ~result.returned

\* index of the row a timestamp of the filtered frame belongs to
IndexOf(ts) == ts - TimestampAt(data, config, 0)

\* C17: no candle below the warm-up index max(50, column_count) is processed
\* (no exit check, signal, open, close or equity point carries such an index,
\* and the equity curve holds exactly the candles from the warm-up index on);
\* a series with no more candles than the warm-up index returns zero trades,
\* an empty equity curve and default metrics.
C17_WarmUpSkipped ==
    LET warm == IF data.columns > 50 THEN data.columns ELSE 50
    IN  /\ pc \in {"track", "signals"} => i >= warm
        /\ \A k \in 1..Len(equity_curve) :
               IndexOf(equity_curve[k].timestamp) = warm + k - 1
        /\ \A k \in 1..Len(positions) : IndexOf(positions[k].entry_time) >= warm
        /\ \A k \in 1..Len(trades) :
               /\ IndexOf(trades[k].entry_time) >= warm
               /\ IndexOf(trades[k].exit_time) >= warm
        /\ (result.returned /\ TotalCandles(data, config) <= warm)
               => /\ result.trades = <<>>
                  /\ result.equity_curve = <<>>
                  /\ result.metrics = DefaultMetrics

\* a frame of 51 columns: the replay of 50 + MaxCandles rows starts at row 51,
\* not at row 50, and a trade is made after it
C17_Witness ==
    /\ pc = "done"
    /\ data.columns = 51
    /\ data.rows = 50 + MaxCandles
    /\ Len(result.equity_curve) = MaxCandles - 1
    /\ result.trades # <<>>

\* C18: the BacktestResult returned by run() carries the positions still open
\* when the replay ends.
C18_ResultCarriesOpenPositions == result.returned => result.positions = positions

\* C19: a run changes only the engine's own fields; the price series held by
\* the strategy's data source is the same after run() as before it.
C19_SeriesUntouched == [][data' = data]_vars

\* the steps of the loop body, in the order of the code
StepOrder ==
    \/ pc = "idle" /\ pc' \in {"loop", "failed"}
    \/ pc = "loop" /\ pc' \in {"track", "done", "failed"}
    \/ pc = "track" /\ pc' = "signals"
    \/ pc = "signals" /\ pc' \in {"signals", "loop"}

\* C16: per candle the engine runs exit-order check, price tracking, signal
\* processing and equity recording in this order; a position opened on candle
\* i is never closed by stop-loss, take-profit or trailing stop on candle i,
\* and the equity point of candle i reflects every open and close of candle i.
C16_StepOrder ==
    [][/\ StepOrder
       /\ \A k \in 1..Len(trades') :
              trades'[k].trade_type # "EXIT"
                  => trades'[k].exit_time > trades'[k].entry_time
       /\ (pc = "loop" /\ pc' = "track")
              => /\ equity_curve' = equity_curve
                 /\ position_counter' = position_counter
                 /\ \A k \in 1..Len(NewTrades) : NewTrades[k].trade_type # "EXIT"
       /\ (pc = "track" /\ pc' = "signals")
              => /\ <<cash, trades, equity_curve>>' = <<cash, trades, equity_curve>>
                 /\ Len(positions') = Len(positions)
       /\ (pc = "signals" /\ pc' = "signals")
              => /\ equity_curve' = equity_curve
                 /\ i' = i
                 /\ \A k \in 1..Len(NewTrades) :
                        NewTrades[k].trade_type = "EXIT" /\ NewTrades[k].exit_time = timestamp
                 /\ \A k \in 1..Len(positions') :
                        positions'[k].id > position_counter
                            => positions'[k].entry_time = timestamp
       /\ (pc = "signals" /\ pc' = "loop")
              => /\ <<cash, positions, trades>>' = <<cash, positions, trades>>
                 /\ i' = i + 1
                 /\ LET point == equity_curve'[Len(equity_curve')]
                    IN  /\ Len(equity_curve') = Len(equity_curve) + 1
                        /\ point.timestamp = timestamp
                        /\ point.cash = cash
                        /\ point.position_value =
                               RSum([k \in 1..Len(positions) |->
                                        RMul(positions[k].size, R(candle.close))])
                        /\ point.equity = RAdd(point.cash, point.position_value)]_vars

\* a position with exit levels was opened on a wide falling candle whose low
\* is under its stop-loss, and is still open when that candle's equity point
\* has been recorded
C16_Witness ==
    /\ pc = "loop"
    /\ equity_curve # <<>>
    /\ \E k \in 1..Len(positions) :
        /\ positions[k].entry_time = equity_curve[Len(equity_curve)].timestamp
        /\ positions[k].stop_loss = R(75)
        /\ RLt(positions[k].entry_price, R(75))
        /\ RLt(R(0), equity_curve[Len(equity_curve)].position_value)

\* the step is a call of generate_signals
GenerateStep == strategy'.at # strategy.at

\* number of generators that raised in the call recorded in st
Faults(st) == (IF st.buy.raised THEN 1 ELSE 0) + (IF st.sell.raised THEN 1 ELSE 0)

C15_NoLookAhead ==
    (pc = "signals" /\ strategy.at = i /\ i < TotalCandles(data, config) - 1)
        => \A p \in LatestPrices :
               LET other == [strategy EXCEPT !.latest_price = p]
               IN  SignalsOf(other, "BUY", strategy.buy)
                       \o SignalsOf(other, "SELL", strategy.sell) = strategy.signals

\* _process_signal for the signals of one row, in list order
RECURSIVE ProcessAll(_, _, _, _)
ProcessAll(L, sigs, cndl, ts) ==
    IF sigs = <<>> THEN L
    ELSE ProcessAll(ProcessSignalOn(L, Head(sigs), cndl, ts), Tail(sigs), cndl, ts)

\* one pass of the loop body on the row at index idx, for an engine with
\* ledger E.ledger, equity curve E.equity_curve and peak equity E.peak_equity
LoopBody(E, entry, idx) ==
    LET c == entry.candle
        ts == TimestampAt(FullData, PlainConfig, idx)
        L1 == CheckExitOrdersOn(E.ledger, c.high, c.low, ts)
        L2 == [L1 EXCEPT !.positions =
                  [k \in 1..Len(L1.positions) |->
                      TrackPosition(L1.positions[k], c.high, c.low)]]
        L3 == ProcessAll(L2, entry.signals, c, ts)
        point == EquityPointOf(L3.cash, L3.positions, E.peak_equity, ts, c.close)
    IN  [ledger |-> L3, equity_curve |-> Append(E.equity_curve, point),
         peak_equity |-> RMax(E.peak_equity, point.equity)]

\* the loop over rows k, k + 1, ... of the series behind the warm-up
RECURSIVE ReplayFrom(_, _, _)
ReplayFrom(E, tp, k) ==
    IF k > Len(tp) THEN E
    ELSE ReplayFrom(LoopBody(E, tp[k], WarmUp(FullData) + k - 1), tp, k + 1)

\* the BacktestResult of run() on a fresh engine that replays tp on its own
RunAlone(tp) ==
    LET fresh == [ledger |-> [cash |-> PlainConfig.initial_capital,
                              positions |-> <<>>, trades |-> <<>>,
                              trade_counter |-> 0, position_counter |-> 0],
                  equity_curve |-> <<>>,
                  peak_equity |-> PlainConfig.initial_capital]
        E == ReplayFrom(fresh, tp, 1)
    IN  [returned |-> TRUE, trades |-> E.ledger.trades,
         equity_curve |-> E.equity_curve,
         metrics |-> MetricsOf(E.ledger.trades, E.equity_curve),
         positions |-> <<>>]

\* C20: with the per-candle steps of two runs on two engine instances
\* interleaved in any order, each instance returns the trades, equity curve
\* and metrics it returns when run alone; within one instance the candles are
\* processed one at a time in index order (the k-th equity point is the one
\* of row warm-up + k - 1, and exactly the rows before the current one have
\* their equity point).
C20_InstanceIsolation ==
    /\ pc = "done" => result = RunAlone(tape)
    /\ peer.pc = "done" => peer.result = RunAlone(peer.tape)
    /\ pc \in {"loop", "track", "signals"} => Len(equity_curve) = i - WarmUp(data)
    /\ peer.pc \in {"loop", "track", "signals"}
           => Len(peer.equity_curve) = peer.i - WarmUp(data)
    /\ \A k \in 1..Len(equity_curve) :
           equity_curve[k].timestamp = WarmUp(data) + k - 1
    /\ \A k \in 1..Len(peer.equity_curve) :
           peer.equity_curve[k].timestamp = WarmUp(data) + k - 1

\* both instances are in the middle of their runs on different series: the
\* first is tracking prices on its second row with the position it opened on
\* its first, the second has just closed its position on its second row
C20_Witness ==
    /\ pc = "track"
    /\ i = WarmUp(data) + 1
    /\ positions # <<>>
    /\ peer.pc = "signals"
    /\ peer.i = WarmUp(data) + 1
    /\ peer.nsig = 1
    /\ peer.trades # <<>>
    /\ tape # peer.tape

(* ---------------------- C21: a run without trades ----------------------- *)
\* C21: when the loop of a run ends with an empty trade list, the run
\* returns (it does not fail) and the metrics of the result are the defaults
\* of BacktestMetrics, whatever the equity curve holds and whether or not
\* positions are still open; every returned result without trades carries
\* the default metrics.
C21_NoTradesDefaultMetrics ==
    [][/\ (pc = "loop" /\ i >= TotalCandles(data, config) /\ trades = <<>>
              /\ pc' # pc)
          => (pc' = "done" /\ result'.returned
                /\ result'.metrics = DefaultMetrics)
       /\ (result'.returned /\ result'.trades = <<>>)
          => result'.metrics = DefaultMetrics]_vars

\* a run has returned without a closed trade while a position is still open
\* and the last equity point differs from the initial capital
C21_Witness ==
    /\ pc = "done"
    /\ result.returned
    /\ result.trades = <<>>
    /\ positions # <<>>
    /\ result.equity_curve # <<>>
    /\ result.equity_curve[Len(result.equity_curve)].equity
           # config.initial_capital

(* --------------------------- C22: profit factor ------------------------- *)
\* the sum of the pnl of the trades with pnl > 0
RECURSIVE GrossProfit(_)
GrossProfit(ts) ==
    IF ts = <<>> THEN R(0)
    ELSE RAdd(IF RLt(R(0), Head(ts).pnl) THEN Head(ts).pnl ELSE R(0),
              GrossProfit(Tail(ts)))

\* the sum of the amounts lost by all the other trades (pnl <= 0)
RECURSIVE GrossLoss(_)
GrossLoss(ts) ==
    IF ts = <<>> THEN R(0)
    ELSE RAdd(IF RLt(R(0), Head(ts).pnl) THEN R(0) ELSE RNeg(Head(ts).pnl),
              GrossLoss(Tail(ts)))

\* C22: for a returned result with at least one trade, a trade is a win iff
\* its pnl is > 0 and every other trade (pnl = 0 included) is on the loss
\* side; the profit factor is +infinity when the gross loss is 0 and the
\* gross profit is > 0, 0 when both are 0, and gross profit / |gross loss|
\* otherwise.
C22_ProfitFactor ==
    (result.returned /\ result.trades # <<>>) =>
        LET ts == result.trades
            m == result.metrics
        IN  /\ m.winning_trades
                   = Cardinality({k \in 1..Len(ts) : RLt(R(0), ts[k].pnl)})
            /\ m.losing_trades
                   = Cardinality({k \in 1..Len(ts) : RLe(ts[k].pnl, R(0))})
            /\ m.profit_factor =
                   IF GrossLoss(ts) = R(0)
                   THEN IF RLt(R(0), GrossProfit(ts)) THEN Infinity ELSE R(0)
                   ELSE RDiv(GrossProfit(ts), GrossLoss(ts))

\* a returned result with a winning trade and a trade of pnl 0 on the loss
\* side: no losing amount, profit factor +infinity
C22_Witness ==
    /\ result.returned
    /\ \E k \in 1..Len(result.trades) : result.trades[k].pnl = R(0)
    /\ \E k \in 1..Len(result.trades) : RLt(R(0), result.trades[k].pnl)
    /\ result.metrics.losing_trades = 1
    /\ result.metrics.profit_factor = Infinity

(* ------------- a run with orders sized by the strategy ------------------ *)
\* the configuration of ConfigSet with fees
FeeConfig == CHOOSE c \in ConfigSet : c.commission.n # 0

InitOpen == Start({FeeConfig, PlainConfig}, {FullData}, {IdleStrategy}, {<<>>}, {<<>>})

\* the tape keeps the signal handed to _process_signal last
OpenSignal ==
    \E sig \in OpenSignals :
        /\ ProcessSignal(sig)
        /\ tape' = <<sig>>
        /\ UNCHANGED <<nsig, strategy>>

NextOpen ==
    \/ RunOnce
    \/ DataCandle
    \/ UpdatePositionPrices
    \/ OpenSignal
    \/ RecordEquity
    \/ FinishOnce

SpecOpen == InitOpen /\ [][NextOpen]_vars

(* ---------------- a run with signals of every type ---------------------- *)
\* plain signals of all six types for the first symbol, BUY and SELL for the
\* second
AllSignals ==
    {s \in [type : SignalType, symbol : Symbols, metadata : {EmptyMeta}] :
        s.symbol # "BTC" => s.type \in {"BUY", "SELL"}}

\* the configuration with fees, with two positions allowed
TwoFeeConfig == [FeeConfig EXCEPT !.max_positions = 2]

\* that configuration with enable_shorting off and on
ShortingConfigs == {[enable_shorting |-> b] @@ TwoFeeConfig : b \in BOOLEAN}

InitSignals == Start(ShortingConfigs, {FullData}, {IdleStrategy}, {<<>>}, {<<>>})

\* the strategy buys the second symbol on the first row only
TypedSignal ==
    \E sig \in AllSignals :
        /\ (sig.symbol # "BTC" /\ sig.type = "BUY") => i = WarmUp(data)
        /\ ProcessSignal(sig)
        /\ UNCHANGED <<nsig, tape, strategy>>

NextSignals ==
    \/ RunOnce
    \/ DataCandle
    \/ UpdatePositionPrices
    \/ TypedSignal
    \/ RecordEquity
    \/ FinishOnce

SpecSignals == InitSignals /\ [][NextSignals]_vars

(* ------------------------------ run_vectorized -------------------------- *)
\* one row of the series with the values of the strategy's buy and sell
\* series at that row
VectorRows == [close : PriceSet, buy : BOOLEAN, sell : BOOLEAN]

\* series of up to MaxCandles rows
VectorTapes == UNION {[1..n -> VectorRows] : n \in 0..MaxCandles}

VectorFrames ==
    {[sources |-> 1, rows |-> n, columns |-> 5, timestamp |-> "none"] :
        n \in 0..MaxCandles}

\* the plain configuration and one with no capital
VectorConfigSet == {PlainConfig, [PlainConfig EXCEPT !.initial_capital = R(0)]}

\* the locals of run_vectorized before its loop; symbols holds the keys of
\* the strategy's buy_signals
NewVector(symbols) ==
    [symbols |-> symbols, equity |-> <<config.initial_capital>>,
     position |-> R(0), entry_price |-> R(0)]

\* the loop body of run_vectorized buying with the initial capital instead
\* of the current equity
VectorRow_BuyWithCapital(v, row) ==
    LET close == R(row.close)
        buy == row.buy /\ v.position = R(0)
        sell == ~buy /\ row.sell /\ RLt(R(0), v.position)
        position == IF buy THEN RDiv(config.initial_capital, close)
                    ELSE IF sell THEN R(0) ELSE v.position
        entry_price == IF buy THEN close
                       ELSE IF sell THEN R(0) ELSE v.entry_price
        sold == IF sell THEN Append(v.equity, RMul(v.position, close))
                ELSE v.equity
        equity == IF RLt(R(0), position)
                  THEN Append(sold, RMul(position, close))
                  ELSE Append(sold, sold[Len(sold)])
    IN  [v EXCEPT !.equity = equity, !.position = position,
                  !.entry_price = entry_price]

\* the loop body of run_vectorized for one row
VectorRow(v, row) ==
    LET close == R(row.close)
        buy == row.buy /\ v.position = R(0)
        sell == ~buy /\ row.sell /\ RLt(R(0), v.position)
        position == IF buy THEN RDiv(v.equity[Len(v.equity)], close)
                    ELSE IF sell THEN R(0) ELSE v.position
        entry_price == IF buy THEN close
                       ELSE IF sell THEN R(0) ELSE v.entry_price
        sold == IF sell THEN Append(v.equity, RMul(v.position, close))
                ELSE v.equity
        equity == IF RLt(R(0), position)
                  THEN Append(sold, RMul(position, close))
                  ELSE Append(sold, sold[Len(sold)])
    IN  [v EXCEPT !.equity = equity, !.position = position,
                  !.entry_price = entry_price]

InitVectorized ==
    /\ Start(VectorConfigSet, VectorFrames, {IdleStrategy}, VectorTapes, {<<>>})
    /\ data.rows = Len(tape)

\* run_vectorized up to its loop: reset, generate the signal series, return
\* default metrics when the strategy has no buy series
RunVectorized ==
    /\ pc = "idle"
    /\ Reset
    /\ \E symbols \in SUBSET {"BTC"} :
        /\ vector' = NewVector(symbols)
        /\ IF symbols = {}
           THEN /\ pc' = "done"
                /\ result' = [returned |-> TRUE, trades |-> <<>>,
                              equity_curve |-> <<>>, metrics |-> DefaultMetrics,
                              positions |-> <<>>]
           ELSE /\ pc' = "vector"
                /\ UNCHANGED result
    /\ i' = 0
    /\ run_no' = run_no + 1
    /\ UNCHANGED <<config, portfolio, sizing, peer, candle, nsig, tape, first, data, strategy>>

\* one iteration of the loop of run_vectorized
VectorStep ==
    /\ pc = "vector"
    /\ i < data.rows
    /\ vector' = VectorRow(vector, tape[i + 1])
    /\ i' = i + 1
    /\ UNCHANGED <<config, aliased, portfolio, sizing, peer, engine, pc, candle, nsig, tape, result, first,
                   run_no, data, strategy>>

\* run_vectorized after its loop: the metrics (ZeroDivisionError for a
\* capital of zero) and the result
VectorFinish ==
    /\ pc = "vector"
    /\ i >= data.rows
    /\ IF config.initial_capital.n = 0
       THEN /\ pc' = "failed"
            /\ UNCHANGED <<result, aliased>>
       ELSE /\ pc' = "done"
            /\ aliased' = TRUE
            /\ result' =
                 [returned |-> TRUE, trades |-> trades, equity_curve |-> <<>>,
                  metrics |-> [DefaultMetrics EXCEPT !.total_return =
                                  RSub(vector.equity[Len(vector.equity)],
                                       config.initial_capital)],
                  positions |-> <<>>]
    /\ UNCHANGED <<config, portfolio, sizing, peer, vector, engine, i, candle, nsig, tape, first,
                   run_no, data, strategy>>

NextVectorized ==
    \/ RunVectorized
    \/ VectorStep
    \/ VectorFinish

SpecVectorized == InitVectorized /\ [][NextVectorized]_vars

(* ------------------------- C23: vectorized run -------------------------- *)
\* the strategy's buy and sell signal at row k of the series
BuyAt(k) == vector'.symbols # {} /\ tape[k].buy
SellAt(k) == tape[k].sell

\* the growth factor of the equity over rows k.. of the series: the product
\* of exit close / entry close over the round trips completed, times
\* last close / entry close when the last entry was never sold; entry is the
\* close of the open entry, 0 while flat
RECURSIVE GrowthFrom(_, _, _)
GrowthFrom(k, entry, last) ==
    IF k > Len(tape)
    THEN IF entry = 0 THEN R(1) ELSE Norm(last, entry)
    ELSE LET close == tape[k].close
         IN  IF entry = 0
             THEN IF BuyAt(k) THEN GrowthFrom(k + 1, close, close)
                  ELSE GrowthFrom(k + 1, 0, close)
             ELSE IF SellAt(k)
                  THEN RMul(Norm(close, entry), GrowthFrom(k + 1, 0, close))
                  ELSE GrowthFrom(k + 1, entry, close)

\* the last element of the equity list of run_vectorized
MarkedEquity(v) == v.equity[Len(v.equity)]

\* C23: the vectorized run starts flat with equity = initial_capital; at each
\* row a buy signal while flat converts the whole current equity into the
\* asset at the row's close, a sell signal while holding liquidates the whole
\* position at that close, a buy while holding and a sell while flat change
\* nothing, and the equity is marked to market at the row's close; the
\* total_return of the returned result is the last marked equity minus
\* initial_capital, which is initial_capital times the product of the round
\* trips' close ratios (and of last close / entry close when still holding)
\* minus initial_capital.
C23_VectorizedRun ==
    [][/\ (pc = "idle" /\ pc' = "vector")
          => (vector'.equity = <<config.initial_capital>>
                /\ vector'.position = R(0))
       /\ (pc = "vector" /\ i' = i + 1)
          => LET row == tape[i']
                 close == R(row.close)
                 flat == vector.position = R(0)
             IN  /\ (row.buy /\ flat)
                    => /\ vector'.position = RDiv(MarkedEquity(vector), close)
                       /\ MarkedEquity(vector') = MarkedEquity(vector)
                 /\ (row.sell /\ ~flat)
                    => /\ vector'.position = R(0)
                       /\ MarkedEquity(vector') = RMul(vector.position, close)
                 /\ (~(row.buy /\ flat) /\ ~(row.sell /\ ~flat))
                    => /\ vector'.position = vector.position
                       /\ MarkedEquity(vector') =
                              IF flat THEN MarkedEquity(vector)
                              ELSE RMul(vector.position, close)
       /\ (pc # "done" /\ pc' = "done")
          => /\ result'.metrics.total_return
                    = RSub(MarkedEquity(vector'), config.initial_capital)
             /\ result'.metrics.total_return
                    = RSub(RMul(config.initial_capital, GrowthFrom(1, 0, 0)),
                           config.initial_capital)]_vars

\* a vectorized run has returned after a completed round trip at a changed
\* price followed by a second entry that is still held at a changed price
C23_Witness ==
    /\ pc = "done"
    /\ vector.symbols # {}
    /\ Len(tape) = 3
    /\ tape[1].buy /\ tape[2].sell /\ tape[3].buy
    /\ tape[1].close # tape[2].close
    /\ Len(vector.equity) = 5
    /\ RLt(R(0), vector.position)
    /\ result.metrics.total_return # R(0)

(* ------------------------ C24: opening arithmetic ----------------------- *)
\* the claim's arithmetic for the position opened by BUY signal sig at the
\* current candle's close with the current cash: pct is the signal's
\* position_size_pct when the metadata has one, else 10
OpenedAsStated(sig) ==
    LET meta == sig.metadata
        pct == IF IsNone(meta.position_size_pct) THEN R(10)
               ELSE meta.position_size_pct
        v == RMul(cash, RDiv(pct, R(100)))
        entry_price == RMul(R(candle.close), RAdd(R(1), config.slippage))
        p == positions'[Len(positions')]
    IN  /\ Len(positions') = Len(positions) + 1
        /\ SubSeq(positions', 1, Len(positions)) = positions
        /\ p.side = "LONG"
        /\ p.symbol = sig.symbol
        /\ p.entry_price = entry_price
        /\ p.size = RDiv(v, entry_price)
        /\ p.stop_loss = meta.stop_loss
        /\ p.take_profit = meta.take_profit
        /\ p.highest_price = entry_price
        /\ p.lowest_price = entry_price
        /\ cash' = RSub(RSub(cash, v), RMul(v, config.commission))

\* C24: a BUY that opens a position at candle close c with cash C creates one
\* LONG position with notional v = C x pct / 100 (pct = the signal's
\* position_size_pct if the metadata has one, else 10), entry_price =
\* c x (1 + slippage), size = v / entry_price, the signal's stop_loss and
\* take_profit, highest_price = lowest_price = entry_price, and leaves
\* cash = C - v - v x commission.
C24_OpeningArithmetic ==
    [][(pc = "signals" /\ position_counter' = position_counter + 1)
          => OpenedAsStated(tape'[1])]_vars

(* ------------------------ C25: closing by signal ------------------------ *)
\* the signals that close: SELL, CLOSE_LONG and CLOSE_SHORT for any symbol
ClosingSignals ==
    [type : {"SELL", "CLOSE_LONG", "CLOSE_SHORT"}, symbol : Symbols,
     metadata : {EmptyMeta}]

\* what the claim states for closing signal sig handed to _process_signal in
\* the current state
ClosedAsStated(sig) ==
    LET held == {k \in 1..Len(positions) : positions[k].symbol = sig.symbol}
        after == ProcessSignalOn(Ledger, sig, candle, timestamp)
    IN  IF held = {} THEN after = Ledger
        ELSE LET k == CHOOSE x \in held :
                          \A y \in held : positions[x].id <= positions[y].id
                 p == positions[k]
                 exit_price == RMul(R(candle.close), RSub(R(1), config.slippage))
                 commission == RMul(RMul(exit_price, p.size), config.commission)
                 t == after.trades[Len(after.trades)]
             IN  /\ \A y \in held : k <= y
                 /\ Len(after.trades) = Len(trades) + 1
                 /\ SubSeq(after.trades, 1, Len(trades)) = trades
                 /\ t.position_id = p.id
                 /\ t.symbol = sig.symbol
                 /\ t.size = p.size
                 /\ t.entry_price = p.entry_price
                 /\ t.exit_price = exit_price
                 /\ t.trade_type = "EXIT"
                 /\ t.commission = commission
                 /\ t.pnl = RSub(RMul(RSub(exit_price, p.entry_price), p.size),
                                 commission)
                 /\ after.cash
                        = RAdd(cash, RSub(RMul(exit_price, p.size), commission))
                 /\ Len(after.positions) = Len(positions) - 1
                 /\ \A j \in 1..Len(positions) :
                        j # k => \E m \in 1..Len(after.positions) :
                                     after.positions[m] = positions[j]

\* C25: a SELL, CLOSE_LONG or CLOSE_SHORT signal for a symbol closes the
\* first, earliest-opened open position with that symbol at exit_price =
\* close x (1 - slippage): the trade has type EXIT, commission = exit_price x
\* size x config.commission and pnl = (exit_price - entry_price) x size -
\* commission, cash grows by exit_price x size - commission, and every other
\* open position stays as it is; without a position for the symbol nothing
\* changes.
C25_CloseBySignal ==
    pc = "signals" => \A sig \in ClosingSignals : ClosedAsStated(sig)

\* a signal has closed the position of the first symbol, opened second, at a
\* price other than its entry price while the position of the second symbol,
\* opened first, is still open
C25_Witness ==
    /\ pc = "signals"
    /\ Len(positions) = 1
    /\ positions[1].symbol = "ETH"
    /\ positions[1].id = 1
    /\ trades # <<>>
    /\ trades[Len(trades)].trade_type = "EXIT"
    /\ trades[Len(trades)].symbol = "BTC"
    /\ trades[Len(trades)].position_id = 2
    /\ trades[Len(trades)].exit_time = timestamp
    /\ trades[Len(trades)].exit_price # trades[Len(trades)].entry_price
    /\ config.commission # R(0)

(* ------------------------- C26: the equity curve ------------------------ *)
\* the value of the open positions ps at price close
ValueAt(ps, close) == RSum([k \in 1..Len(ps) |-> RMul(ps[k].size, R(close))])

\* C26: during a run every step keeps the equity points recorded so far as
\* they are; the step that ends a candle appends exactly one point, stamped
\* with that candle's timestamp, with equity = cash + position_value and
\* position_value = the sum of size x the candle's close over the positions
\* open at the end of the candle, and no other step appends one; the peak
\* used for drawdown never decreases; when the run returns, the curve has
\* (filtered candles - warm-up index) points, or none if that is negative,
\* and its timestamps are strictly increasing.
C26_EquityCurve ==
    [][pc # "idle" =>
        /\ Len(equity_curve') >= Len(equity_curve)
        /\ SubSeq(equity_curve', 1, Len(equity_curve)) = equity_curve
        /\ RLe(peak_equity, peak_equity')
        /\ IF pc = "signals" /\ pc' = "loop"
           THEN /\ Len(equity_curve') = Len(equity_curve) + 1
                /\ LET point == equity_curve'[Len(equity_curve')]
                   IN  /\ point.timestamp = timestamp
                       /\ point.cash = cash'
                       /\ point.position_value = ValueAt(positions', candle.close)
                       /\ point.equity = RAdd(cash', point.position_value)
           ELSE equity_curve' = equity_curve
        /\ pc' = "done" =>
               /\ Len(equity_curve')
                      = Max(TotalCandles(data, config) - WarmUp(data), 0)
               /\ result'.equity_curve = equity_curve'
               /\ \A k \in 1..(Len(equity_curve') - 1) :
                      equity_curve'[k].timestamp < equity_curve'[k + 1].timestamp]_vars

\* a run over a date-filtered series has returned a curve of two points, the
\* second recorded with a position open whose value moved with the close
C26_Witness ==
    /\ pc = "done"
    /\ Stamped(data)
    /\ config.start_date = 1
    /\ Len(result.equity_curve) = 2
    /\ positions # <<>>
    /\ result.equity_curve[2].position_value # R(0)
    /\ result.equity_curve[2].equity # result.equity_curve[1].equity
    /\ RLt(R(0), result.equity_curve[2].drawdown)

(* ------------------------------ C27: reset ------------------------------ *)
\* the engine fields as the constructor leaves them
FreshEngine ==
    <<config.initial_capital, <<>>, <<>>, <<>>, config.initial_capital, 0, 0>>

\* C27: a call of reset(), whatever the engine holds, leaves cash =
\* initial_capital, no open position, no trade, no equity point, peak equity
\* = initial_capital and both counters at 0; every call of run() does the
\* same before anything else, so the replay loop is entered with these values.
C27_ResetRestoresInitialState ==
    [][/\ (pc = "done" /\ pc' = "done" /\ engine' # engine)
          => engine' = FreshEngine
       /\ run_no' = run_no + 1 => engine' = FreshEngine
       /\ (pc = "loop" /\ i = WarmUp(data) /\ pc' = "track")
          => engine = FreshEngine]_vars

\* a second run has just been started on an engine that ended its first run
\* with a trade, an open position and an equity curve that saw a drawdown
C27_Witness ==
    /\ run_no = 2
    /\ pc = "loop"
    /\ i = WarmUp(data)
    /\ engine = FreshEngine
    /\ first.trades # <<>>
    /\ Len(first.equity_curve) = MaxCandles
    /\ first.equity_curve[MaxCandles].position_value # R(0)
    /\ \E k \in 1..MaxCandles : RLt(R(0), first.equity_curve[k].drawdown)

(* ---------------------- C28: position lifecycle ------------------------- *)
\* the ids of the positions in ps
IdsOf(ps) == {ps[k].id : k \in 1..Len(ps)}

\* C28: within a run, a step appends a trade for a position exactly when
\* that position leaves the open set, and the trade has the position's whole
\* size; the trades recorded before stay in the list unchanged; trade ids
\* and position ids are unique, each position id is in at most one trade,
\* and no trade refers to a position that is still open.
C28_PositionLifecycle ==
    [][run_no' = run_no =>
        /\ Len(trades') >= Len(trades)
        /\ SubSeq(trades', 1, Len(trades)) = trades
        /\ \A k \in 1..Len(NewTrades) :
               \E j \in 1..Len(positions) :
                   /\ positions[j].id = NewTrades[k].position_id
                   /\ positions[j].size = NewTrades[k].size
                   /\ positions[j].id \notin IdsOf(positions')
        /\ \A j \in 1..Len(positions) :
               positions[j].id \notin IdsOf(positions')
                   => \E k \in 1..Len(NewTrades) :
                          NewTrades[k].position_id = positions[j].id
        /\ Len(NewTrades) = Cardinality(IdsOf(positions) \ IdsOf(positions'))
        /\ \A a, b \in 1..Len(trades') :
               a # b => /\ trades'[a].id # trades'[b].id
                        /\ trades'[a].position_id # trades'[b].position_id
        /\ \A a, b \in 1..Len(positions') :
               a # b => positions'[a].id # positions'[b].id
        /\ \A k \in 1..Len(trades') :
               trades'[k].position_id \notin IdsOf(positions')]_vars

\* two positions open at once have both been closed by the exit-order check
\* of one candle, leaving two trades and no open position
C28_Witness ==
    /\ pc = "track"
    /\ positions = <<>>
    /\ Len(trades) = 2
    /\ trades[1].exit_time = trades[2].exit_time
    /\ trades[1].trade_type # "EXIT"
    /\ trades[2].trade_type # "EXIT"
    /\ trades[1].position_id # trades[2].position_id

(* --------------------------- C29: long only ----------------------------- *)
\* plain signals of every type for every symbol
TypedSignals == [type : SignalType, symbol : Symbols, metadata : {EmptyMeta}]

\* C29: with enable_shorting off or on, every open position and every trade
\* has side LONG; handed to _process_signal in any state, a SELL, CLOSE_LONG
\* or CLOSE_SHORT signal opens no position (the open set only loses
\* positions), a BUY opens LONG positions only, and a HOLD or NO_SIGNAL
\* signal leaves cash, positions, trades and counters as they are.
C29_LongOnly ==
    /\ \A k \in 1..Len(positions) : positions[k].side = "LONG"
    /\ \A k \in 1..Len(trades) : trades[k].side = "LONG"
    /\ pc = "signals" =>
           \A sig \in TypedSignals :
               LET after == ProcessSignalOn(Ledger, sig, candle, timestamp)
               IN  /\ \A k \in 1..Len(after.positions) :
                          after.positions[k].side = "LONG"
                   /\ sig.type \in {"SELL", "CLOSE_LONG", "CLOSE_SHORT"}
                          => /\ IdsOf(after.positions) \subseteq IdsOf(positions)
                             /\ Len(after.positions) <= Len(positions)
                             /\ after.position_counter = position_counter
                   /\ sig.type \in {"HOLD", "NO_SIGNAL"} => after = Ledger

\* with enable_shorting on, signals are being processed while no position is
\* open after an earlier position was closed by a signal
C29_Witness ==
    /\ config.enable_shorting
    /\ pc = "signals"
    /\ positions = <<>>
    /\ trades # <<>>
    /\ trades[Len(trades)].trade_type = "EXIT"
    /\ trades[Len(trades)].side = "LONG"

(* --------------------- C30: max drawdown duration ----------------------- *)
\* the lengths of the runs of consecutive points of ec that are all in
\* drawdown (drawdown > 0)
DrawdownRuns(ec) ==
    {b - a + 1 : <<a, b>> \in
        {r \in (1..Len(ec)) \X (1..Len(ec)) :
            /\ r[1] <= r[2]
            /\ \A k \in r[1]..r[2] : RLt(R(0), ec[k].drawdown)}}

\* the length of the longest such run, 0 without a point in drawdown
LongestDrawdownRun(ec) ==
    IF DrawdownRuns(ec) = {} THEN 0
    ELSE CHOOSE n \in DrawdownRuns(ec) : \A m \in DrawdownRuns(ec) : m <= n

Mean(s) == RDiv(RSum(s), R(Len(s)))

\* np.std(s) > 0: the deviation of a list, the square root of the mean
\* squared distance from its mean, is 0 exactly when its values are all equal
StdPositive(s) == \E j, k \in 1..Len(s) : s[j] # s[k]

\* BacktestEngine._calculate_returns: the period returns of the curve from
\* point k on, skipping the periods that start from an equity <= 0
RECURSIVE ReturnsFrom(_, _)
ReturnsFrom(ec, k) ==
    IF k > Len(ec) THEN <<>>
    ELSE LET prev_equity == ec[k - 1].equity
             curr_equity == ec[k].equity
         IN  IF RLt(R(0), prev_equity)
             THEN <<RDiv(RSub(curr_equity, prev_equity), prev_equity)>>
                      \o ReturnsFrom(ec, k + 1)
             ELSE ReturnsFrom(ec, k + 1)

CalculateReturns(ec) == IF Len(ec) < 2 THEN <<>> ELSE ReturnsFrom(ec, 2)

\* a division, kept by whether its divisor is 0: it raises ZeroDivisionError
\* when it is, and yields a finite quotient otherwise
ZeroDivisionError == [error |-> "ZeroDivisionError"]
Quotient(divisor_is_zero) ==
    IF divisor_is_zero THEN ZeroDivisionError ELSE [quotient |-> "finite"]

\* BacktestMetrics.calculate_win_rate
CalculateWinRate(m) ==
    IF m.total_trades = 0 THEN R(0)
    ELSE RMul(Norm(m.winning_trades, m.total_trades), R(100))

\* _calculate_metrics dividing by avg_loss without testing it
RatioMetrics_UnguardedRiskReward(ts, ec) ==
    LET pnl == [k \in 1..Len(ts) |-> ts[k].pnl]
        losses == SelectSeq(pnl, LAMBDA x : ~RLt(R(0), x))
        avg_loss == IF losses # <<>> THEN Mean(losses) ELSE R(0)
        returns == CalculateReturns(ec)
        downside_returns == SelectSeq(returns, LAMBDA r : RLt(r, R(0)))
        max_drawdown_percentage ==
            RMaxSeq([k \in 1..Len(ec) |-> ec[k].drawdown_percentage])
        none == [win_rate |-> R(0), avg_loss |-> R(0), risk_reward_ratio |-> R(0),
                 sharpe_ratio |-> R(0), sortino_ratio |-> R(0),
                 calmar_ratio |-> R(0)]
    IN  IF ts = <<>> THEN none
        ELSE [win_rate |-> CalculateWinRate(TradeMetrics(ts)),
              avg_loss |-> avg_loss,
              risk_reward_ratio |-> Quotient(avg_loss = R(0)),
              sharpe_ratio |->
                  IF ec # <<>> /\ returns # <<>> /\ StdPositive(returns)
                  THEN Quotient(~StdPositive(returns)) ELSE R(0),
              sortino_ratio |->
                  IF ec # <<>> /\ returns # <<>> /\ downside_returns # <<>>
                     /\ StdPositive(downside_returns)
                  THEN Quotient(~StdPositive(downside_returns)) ELSE R(0),
              calmar_ratio |->
                  IF ec # <<>> /\ returns # <<>>
                     /\ RLt(R(0), max_drawdown_percentage)
                  THEN Quotient(max_drawdown_percentage = R(0))
                  ELSE R(0)]

\* the ratios _calculate_metrics guards against a zero divisor: each is 0
\* when left at its default, ZeroDivisionError when its division raises, and
\* a finite quotient otherwise
RatioMetrics(ts, ec) ==
    LET pnl == [k \in 1..Len(ts) |-> ts[k].pnl]
        losses == SelectSeq(pnl, LAMBDA x : ~RLt(R(0), x))
        avg_loss == IF losses # <<>> THEN Mean(losses) ELSE R(0)
        returns == CalculateReturns(ec)
        downside_returns == SelectSeq(returns, LAMBDA r : RLt(r, R(0)))
        max_drawdown_percentage ==
            RMaxSeq([k \in 1..Len(ec) |-> ec[k].drawdown_percentage])
        none == [win_rate |-> R(0), avg_loss |-> R(0), risk_reward_ratio |-> R(0),
                 sharpe_ratio |-> R(0), sortino_ratio |-> R(0),
                 calmar_ratio |-> R(0)]
    IN  IF ts = <<>> THEN none
        ELSE [win_rate |-> CalculateWinRate(TradeMetrics(ts)),
              avg_loss |-> avg_loss,
              risk_reward_ratio |->
                  IF avg_loss # R(0) THEN Quotient(avg_loss = R(0))
                  ELSE R(0),
              sharpe_ratio |->
                  IF ec # <<>> /\ returns # <<>> /\ StdPositive(returns)
                  THEN Quotient(~StdPositive(returns)) ELSE R(0),
              sortino_ratio |->
                  IF ec # <<>> /\ returns # <<>> /\ downside_returns # <<>>
                     /\ StdPositive(downside_returns)
                  THEN Quotient(~StdPositive(downside_returns)) ELSE R(0),
              calmar_ratio |->
                  IF ec # <<>> /\ returns # <<>>
                     /\ RLt(R(0), max_drawdown_percentage)
                  THEN Quotient(max_drawdown_percentage = R(0))
                  ELSE R(0)]

\* C31: each of the five guarded ratios stays at its default 0 when its
\* divisor is 0, and none of them raises: Sharpe with a zero volatility (or no
\* period return), Sortino with no negative period return or a zero deviation
\* of them, Calmar with a zero maximum drawdown percentage, risk/reward with a
\* zero average loss, and the win rate without trades.
C31_ZeroDenominatorGuards ==
    LET r == RatioMetrics(trades, equity_curve)
        returns == CalculateReturns(equity_curve)
        downside_returns == SelectSeq(returns, LAMBDA x : RLt(x, R(0)))
        max_drawdown_percentage ==
            RMaxSeq([k \in 1..Len(equity_curve) |->
                        equity_curve[k].drawdown_percentage])
    IN  /\ ZeroDivisionError \notin
               {r.win_rate, r.risk_reward_ratio, r.sharpe_ratio,
                r.sortino_ratio, r.calmar_ratio}
        /\ (returns = <<>> \/ ~StdPositive(returns))
               => r.sharpe_ratio = R(0)
        /\ (downside_returns = <<>> \/ ~StdPositive(downside_returns))
               => r.sortino_ratio = R(0)
        /\ (equity_curve = <<>> \/ max_drawdown_percentage = R(0))
               => r.calmar_ratio = R(0)
        /\ r.avg_loss = R(0) => r.risk_reward_ratio = R(0)
        /\ trades = <<>> => r.win_rate = R(0)
        /\ CalculateWinRate(DefaultMetrics) = R(0)

\* a run with a trade whose average loss is 0 and whose period returns are
\* all equal, so that the volatility and the drawdown are 0 as well
C31_Witness ==
    /\ pc = "done"
    /\ trades # <<>>
    /\ RatioMetrics(trades, equity_curve).avg_loss = R(0)
    /\ CalculateReturns(equity_curve) # <<>>
    /\ ~StdPositive(CalculateReturns(equity_curve))
    /\ RatioMetrics(trades, equity_curve).calmar_ratio = R(0)

(* ---------------------- BacktestConfig.validate ------------------------- *)
\* configurations meeting and breaking each rule of validate(), alone and
\* together, each rule at its boundary value as well
ValidateConfigSet ==
    {[PlainConfig EXCEPT !.start_date = s, !.initial_capital = R(k),
                         !.commission = Norm(f, 4), !.max_positions = m] :
        s \in {0, FarDate, FarDate + 1}, k \in {-1000, 0, 1000},
        f \in {-1, 0, 1}, m \in {-1, 0, 1, 2}}

\* validate() accepting a window that ends when it starts
Validate_EqualDatesAccepted(c) ==
    (IF c.start_date > c.end_date
     THEN <<"start_date must be before end_date">> ELSE <<>>)
    \o (IF RLe(c.initial_capital, R(0))
        THEN <<"initial_capital must be positive">> ELSE <<>>)
    \o (IF RLt(c.commission, R(0))
        THEN <<"commission cannot be negative">> ELSE <<>>)
    \o (IF c.max_positions < 1
        THEN <<"max_positions must be at least 1">> ELSE <<>>)

\* BacktestConfig.validate: the list of errors, in the order of the tests
Validate(c) ==
    (IF c.start_date >= c.end_date
     THEN <<"start_date must be before end_date">> ELSE <<>>)
    \o (IF RLe(c.initial_capital, R(0))
        THEN <<"initial_capital must be positive">> ELSE <<>>)
    \o (IF RLt(c.commission, R(0))
        THEN <<"commission cannot be negative">> ELSE <<>>)
    \o (IF c.max_positions < 1
        THEN <<"max_positions must be at least 1">> ELSE <<>>)

InitValidate == Start(ValidateConfigSet, {FullData}, {IdleStrategy}, {<<>>}, {<<>>})

\* a call of config.validate(): the errors are kept in `result`
ValidateCall ==
    /\ pc = "idle"
    /\ pc' = "validated"
    /\ result' = [returned |-> TRUE, errors |-> Validate(config)]
    /\ UNCHANGED <<config, aliased, portfolio, sizing, peer, vector, engine, i, candle, nsig, tape, first,
                   run_no, data, strategy>>

NextValidate == ValidateCall

SpecValidate == InitValidate /\ [][NextValidate]_vars

\* the rules of validate() that configuration c breaks
ViolatedRules(c) ==
    {r \in {"start_date", "initial_capital", "commission", "max_positions"} :
        \/ r = "start_date" /\ ~(c.start_date < c.end_date)
        \/ r = "initial_capital" /\ ~RLt(R(0), c.initial_capital)
        \/ r = "commission" /\ ~RLe(R(0), c.commission)
        \/ r = "max_positions" /\ ~(c.max_positions >= 1)}

\* C32: validate() returns an empty list exactly when start_date < end_date,
\* initial_capital > 0, commission >= 0 and max_positions >= 1; otherwise it
\* returns one error per broken rule, and it leaves the configuration as it was.
C32_Validate ==
    [][(pc = "idle" /\ pc' = "validated") =>
          /\ (result'.errors = <<>>) <=> (ViolatedRules(config) = {})
          /\ Len(result'.errors) = Cardinality(ViolatedRules(config))
          /\ \A j, k \in 1..Len(result'.errors) :
                 j # k => result'.errors[j] # result'.errors[k]
          /\ config' = config]_vars

\* validate() has returned several errors for a configuration that breaks
\* several rules, one of them at its boundary (equal dates)
C32_Witness ==
    /\ pc = "validated"
    /\ config.start_date = config.end_date
    /\ Len(result.errors) = 3
    /\ Cardinality(ViolatedRules(config)) = 3

(* -------------------- PositionSize.calculate_size ----------------------- *)
\* PositionSize rules: with and without a fixed amount (0 included), amount
\* bounds in either order, and a risk per trade
PositionSizeSet ==
    [symbol : {"BTC"},
     percentage_of_portfolio : {R(10), R(50)},
     fixed_amount : {NoneR, R(0), R(200)},
     max_amount : {NoneR, R(50), R(500)},
     min_amount : {NoneR, R(50), R(600)},
     risk_per_trade : {NoneR, R(1), R(5)}]

\* the arguments of calculate_size: a positive price, a stop at, below and
\* above it
SizingCalls ==
    [rule : PositionSizeSet, portfolio_value : {R(1000)},
     current_price : {R(50), R(100)},
     stop_loss_price : {NoneR, R(90), R(100), R(120)}]

\* calculate_size, lines 80-85: the size before the risk and amount limits
BaseSize(rule, portfolio_value, current_price) ==
    IF ~IsNone(rule.fixed_amount)
    THEN RDiv(rule.fixed_amount, current_price)
    ELSE RDiv(RMul(portfolio_value,
                   RDiv(rule.percentage_of_portfolio, R(100))),
              current_price)

\* risk-based sizing that replaces the size instead of capping it
RiskSized_Replaces(rule, portfolio_value, current_price, stop_loss_price, size) ==
    IF ~IsNone(stop_loss_price) /\ ~IsNone(rule.risk_per_trade)
    THEN LET risk_amount ==
                 RMul(portfolio_value, RDiv(rule.risk_per_trade, R(100)))
             price_risk == RAbs(RSub(current_price, stop_loss_price))
         IN  IF RLt(R(0), price_risk)
             THEN RDiv(risk_amount, price_risk)
             ELSE size
    ELSE size

\* calculate_size, lines 88-93: risk-based sizing
RiskSized(rule, portfolio_value, current_price, stop_loss_price, size) ==
    IF ~IsNone(stop_loss_price) /\ ~IsNone(rule.risk_per_trade)
    THEN LET risk_amount ==
                 RMul(portfolio_value, RDiv(rule.risk_per_trade, R(100)))
             price_risk == RAbs(RSub(current_price, stop_loss_price))
         IN  IF RLt(R(0), price_risk)
             THEN RMin(size, RDiv(risk_amount, price_risk))
             ELSE size
    ELSE size

\* calculate_size, lines 96-101: the minimum, then the maximum amount
AmountLimited(rule, current_price, size) ==
    LET raised == IF ~IsNone(rule.min_amount)
                  THEN RMax(size, RDiv(rule.min_amount, current_price))
                  ELSE size
    IN  IF ~IsNone(rule.max_amount)
        THEN RMin(raised, RDiv(rule.max_amount, current_price))
        ELSE raised

\* PositionSize.calculate_size
CalculateSize(rule, portfolio_value, current_price, stop_loss_price) ==
    AmountLimited(rule, current_price,
        RiskSized(rule, portfolio_value, current_price, stop_loss_price,
                  BaseSize(rule, portfolio_value, current_price)))

InitSize ==
    Start({PlainConfig}, {FullData}, {IdleStrategy}, {<<>>}, {<<>>})

\* a call rule.calculate_size(portfolio_value, current_price, stop_loss_price)
CalculateSizeCall ==
    /\ ~sizing.called
    /\ \E call \in SizingCalls :
        sizing' = [called |-> TRUE, rule |-> call.rule,
                   portfolio_value |-> call.portfolio_value,
                   current_price |-> call.current_price,
                   stop_loss_price |-> call.stop_loss_price,
                   size |-> CalculateSize(call.rule, call.portfolio_value,
                                          call.current_price,
                                          call.stop_loss_price)]
    /\ UNCHANGED <<config, aliased, portfolio, peer, vector, engine, pc, i, candle, nsig,
                   tape, result, first, run_no, data, strategy>>

NextSize == CalculateSizeCall

SpecSize == InitSize /\ [][NextSize]_vars

\* C33: for a positive price, calculate_size starts from fixed_amount / price
\* when a fixed amount is configured and from (portfolio_value x pct / 100) /
\* price otherwise; with a stop-loss price and a risk per trade both given the
\* size is capped at (portfolio_value x risk / 100) / |price - stop| and is
\* never above the base size (the returned size too, when no minimum amount
\* raises it afterwards); and with both amounts configured, minimum <= maximum,
\* the returned size times the price lies between them.
C33_CalculateSize ==
    sizing.called =>
        LET rule == sizing.rule
            value == sizing.portfolio_value
            price == sizing.current_price
            stop == sizing.stop_loss_price
            base == IF ~IsNone(rule.fixed_amount)
                    THEN RDiv(rule.fixed_amount, price)
                    ELSE RDiv(RDiv(RMul(value, rule.percentage_of_portfolio),
                                   R(100)), price)
            capped == RiskSized(rule, value, price, stop, base)
            both == ~IsNone(stop) /\ ~IsNone(rule.risk_per_trade)
            cap == RDiv(RDiv(RMul(value, rule.risk_per_trade), R(100)),
                        RAbs(RSub(price, stop)))
            notional == RMul(sizing.size, price)
        IN  /\ RLt(R(0), price)
            /\ BaseSize(rule, value, price) = base
            /\ ~both => capped = base
            /\ both => RLe(capped, base)
            /\ (both /\ price # stop) => capped = RMin(base, cap)
            /\ (both /\ IsNone(rule.min_amount)) => RLe(sizing.size, capped)
            /\ (~IsNone(rule.min_amount) /\ ~IsNone(rule.max_amount)
                    /\ RLe(rule.min_amount, rule.max_amount))
                   => /\ RLe(rule.min_amount, notional)
                      /\ RLe(notional, rule.max_amount)

\* a size returned below its base because the risk cap applied, with both
\* amounts configured in order
C33_Witness ==
    /\ sizing.called
    /\ ~IsNone(sizing.stop_loss_price)
    /\ ~IsNone(sizing.rule.risk_per_trade)
    /\ ~IsNone(sizing.rule.min_amount)
    /\ ~IsNone(sizing.rule.max_amount)
    /\ RLe(sizing.rule.min_amount, sizing.rule.max_amount)
    /\ RLt(sizing.size,
           BaseSize(sizing.rule, sizing.portfolio_value, sizing.current_price))
    /\ RLt(sizing.rule.min_amount, RMul(sizing.size, sizing.current_price))

(* -------------------- RiskConfig and PortfolioManager ------------------- *)
MaxCalls == 3

\* a PositionSize, TakeProfitRule and StopLossRule for one symbol each, as
\* RiskConfig(position_sizes=[...], take_profits=[...], stop_losses=[...])
RuleSet(symbol, size_pct, risk, tp_pct, sl_pct, max_open) ==
    [position_sizes |->
         <<[symbol |-> symbol, percentage_of_portfolio |-> R(size_pct),
            fixed_amount |-> NoneR, max_amount |-> NoneR,
            min_amount |-> NoneR, risk_per_trade |-> R(risk)]>>,
     take_profits |-> <<[symbol |-> symbol, percentage_threshold |-> R(tp_pct)]>>,
     stop_losses |-> <<[symbol |-> symbol, percentage_threshold |-> R(sl_pct)]>>,
     max_open_positions |-> max_open]

CONSERVATIVE_RISK == RuleSet("*", 5, 1, 5, 2, 3)
MODERATE_RISK == RuleSet("*", 10, 2, 10, 5, 5)
AGGRESSIVE_RISK == RuleSet("*", 15, 5, 20, 8, 10)

\* RiskConfig(): no rule at all
DefaultRisk ==
    [position_sizes |-> <<>>, take_profits |-> <<>>, stop_losses |-> <<>>,
     max_open_positions |-> 5]

\* rules for BTC alone, and the same rules behind wildcard rules
ExactRisk == RuleSet("BTC", 50, 1, 10, 5, 1)
MixedRisk ==
    [position_sizes |-> CONSERVATIVE_RISK.position_sizes \o ExactRisk.position_sizes,
     take_profits |-> CONSERVATIVE_RISK.take_profits \o ExactRisk.take_profits,
     stop_losses |-> CONSERVATIVE_RISK.stop_losses \o ExactRisk.stop_losses,
     max_open_positions |-> 3]

RiskConfigSet ==
    {CONSERVATIVE_RISK, MODERATE_RISK, AGGRESSIVE_RISK, DefaultRisk, ExactRisk,
     MixedRisk}

NoRule == [symbol |-> "none"]

\* lookup that falls back to the wildcard rule
GetRule_WildcardFallback(rules, symbol) ==
    LET exact == {k \in 1..Len(rules) : rules[k].symbol = symbol}
        any == {k \in 1..Len(rules) : rules[k].symbol = "*"}
    IN  IF exact # {}
        THEN rules[CHOOSE k \in exact : \A j \in exact : k <= j]
        ELSE IF any # {}
             THEN rules[CHOOSE k \in any : \A j \in any : k <= j]
             ELSE NoRule

\* RiskConfig.get_position_size / get_take_profit_rule / get_stop_loss_rule:
\* the first rule of the list whose symbol is the requested one, else None
GetRule(rules, symbol) ==
    LET exact == {k \in 1..Len(rules) : rules[k].symbol = symbol}
    IN  IF exact # {}
        THEN rules[CHOOSE k \in exact : \A j \in exact : k <= j]
        ELSE NoRule

\* PortfolioManager.__init__
NewPortfolio(initial_capital, risk_config) ==
    [constructed |-> TRUE, risk_config |-> risk_config,
     initial_capital |-> initial_capital, cash |-> initial_capital,
     positions |-> <<>>, closed_trades |-> <<>>, ids |-> 0, calls |-> 0,
     call |-> [op |-> "__init__"], returned |-> "none"]

\* the position of a symbol in state.positions, kept as a sequence in
\* insertion order; 0 when the symbol has none
HeldAt(p, symbol) ==
    IF \E k \in 1..Len(p.positions) : p.positions[k].symbol = symbol
    THEN CHOOSE k \in 1..Len(p.positions) : p.positions[k].symbol = symbol
    ELSE 0

\* PortfolioState.total_value
TotalValue(p) ==
    RAdd(p.cash, RSum([k \in 1..Len(p.positions) |->
                          RMul(p.positions[k].size, p.positions[k].current_price)]))

\* PortfolioManager.can_open_position
CanOpenPosition(p, symbol, required_value) ==
    /\ ~RLt(p.cash, required_value)
    /\ ~(Len(p.positions) >= p.risk_config.max_open_positions)
    /\ HeldAt(p, symbol) = 0

\* PortfolioManager.calculate_position_size
CalculatePositionSize(p, symbol, current_price, stop_loss_price) ==
    LET position_size_config == GetRule(p.risk_config.position_sizes, symbol)
    IN  IF position_size_config = NoRule
        THEN RDiv(RMul(TotalValue(p), Norm(1, 10)), current_price)
        ELSE CalculateSize(position_size_config, TotalValue(p), current_price,
                           stop_loss_price)

\* StopLossRule.calculate_stop_price (fixed percentage) and
\* TakeProfitRule.calculate_target_price
CalculateStopPrice(rule, entry_price, side) ==
    IF side = "long"
    THEN RMul(entry_price, RSub(R(1), RDiv(rule.percentage_threshold, R(100))))
    ELSE RMul(entry_price, RAdd(R(1), RDiv(rule.percentage_threshold, R(100))))

CalculateTargetPrice(rule, entry_price, side) ==
    IF side = "long"
    THEN RMul(entry_price, RAdd(R(1), RDiv(rule.percentage_threshold, R(100))))
    ELSE RMul(entry_price, RSub(R(1), RDiv(rule.percentage_threshold, R(100))))

\* PortfolioManager.open_position
OpenPositionIn(p, symbol, side, size, price, stop_loss, take_profit) ==
    LET position_value == RMul(size, price)
        sl_rule == GetRule(p.risk_config.stop_losses, symbol)
        tp_rule == GetRule(p.risk_config.take_profits, symbol)
        position ==
            [id |-> p.ids + 1, symbol |-> symbol, side |-> side, size |-> size,
             entry_price |-> price, current_price |-> price,
             stop_loss |->
                 IF IsNone(stop_loss) /\ sl_rule # NoRule
                 THEN CalculateStopPrice(sl_rule, price, side) ELSE stop_loss,
             take_profit |->
                 IF IsNone(take_profit) /\ tp_rule # NoRule
                 THEN CalculateTargetPrice(tp_rule, price, side)
                 ELSE take_profit]
    IN  IF ~CanOpenPosition(p, symbol, position_value)
        THEN [p EXCEPT !.returned = "none"]
        ELSE [p EXCEPT !.cash = RSub(p.cash, position_value),
                       !.positions = Append(p.positions, position),
                       !.ids = p.ids + 1,
                       !.returned = "position"]

\* PortfolioManager.close_position
ClosePositionIn(p, symbol, price, partial_size) ==
    LET at == HeldAt(p, symbol)
        position == p.positions[at]
        close_size == IF Truthy(partial_size) THEN partial_size ELSE position.size
        close_value == RMul(close_size, price)
        pnl == IF position.side = "long"
               THEN RMul(RSub(price, position.entry_price), close_size)
               ELSE RMul(RSub(position.entry_price, price), close_size)
        trade == [position_id |-> position.id, symbol |-> symbol,
                  side |-> position.side, entry_price |-> position.entry_price,
                  exit_price |-> price, size |-> close_size, pnl |-> pnl]
    IN  IF at = 0 THEN [p EXCEPT !.returned = "none"]
        ELSE IF RMul(position.entry_price, close_size) = R(0)
        THEN [p EXCEPT !.returned = "ZeroDivisionError"]
        ELSE [p EXCEPT
                 !.cash = RAdd(p.cash, close_value),
                 !.closed_trades = Append(p.closed_trades, trade),
                 !.positions =
                     IF Truthy(partial_size) /\ RLt(close_size, position.size)
                     THEN [p.positions EXCEPT
                              ![at].size = RSub(position.size, close_size)]
                     ELSE RemoveAt(p.positions, at),
                 !.returned = "trade"]

\* PortfolioManager.process_signal for a BUY signal
ProcessBuyIn(p, sig) ==
    OpenPositionIn(p, sig.symbol, "long",
                   CalculatePositionSize(p, sig.symbol, sig.price,
                                         sig.metadata.stop_loss),
                   sig.price, sig.metadata.stop_loss, sig.metadata.take_profit)

\* the BUY signals the manager is given: without and with exit levels
ManagerSignals ==
    {[type |-> "BUY", symbol |-> s, price |-> R(100), metadata |-> m] :
        s \in Symbols, m \in {EmptyMeta, ExitMeta}}

\* the arguments close_position is given: both prices, no partial size, 0,
\* a part of what process_signal and open_position open, more than it, and a
\* negative size
PartialSizes == {NoneR, R(0), R(1), R(3), R(-1)}

InitPortfolio == Start({PlainConfig}, {FullData}, {IdleStrategy}, {<<>>}, {<<>>})

\* PortfolioManager(initial_capital=1000, risk_config=...)
ConstructPortfolio ==
    /\ ~portfolio.constructed
    /\ \E risk_config \in RiskConfigSet :
        portfolio' = NewPortfolio(R(1000), risk_config)
    /\ UNCHANGED <<config, aliased, sizing, peer, vector, engine, pc, i, candle, nsig,
                   tape, result, first, run_no, data, strategy>>

\* the manager after a call of one of its methods, the arguments kept in `call`
Called(after, call) ==
    [after EXCEPT !.calls = portfolio.calls + 1, !.call = call]

ProcessBuy ==
    /\ portfolio.constructed
    /\ portfolio.calls < MaxCalls
    /\ \E sig \in ManagerSignals :
        portfolio' = Called(ProcessBuyIn(portfolio, sig),
                            [op |-> "process_signal", signal |-> sig])
    /\ UNCHANGED <<config, aliased, sizing, peer, vector, engine, pc, i, candle, nsig,
                   tape, result, first, run_no, data, strategy>>

OpenPositionCall ==
    /\ portfolio.constructed
    /\ portfolio.calls < MaxCalls
    /\ \E size \in {R(2)} :
        portfolio' = Called(OpenPositionIn(portfolio, "BTC", "long", size,
                                           R(100), NoneR, NoneR),
                            [op |-> "open_position", symbol |-> "BTC",
                             size |-> size, price |-> R(100)])
    /\ UNCHANGED <<config, aliased, sizing, peer, vector, engine, pc, i, candle, nsig,
                   tape, result, first, run_no, data, strategy>>

ClosePositionCall ==
    /\ portfolio.constructed
    /\ portfolio.calls < MaxCalls
    /\ \E price \in {R(50), R(100)}, partial_size \in PartialSizes :
        portfolio' = Called(ClosePositionIn(portfolio, "BTC", price, partial_size),
                            [op |-> "close_position", symbol |-> "BTC",
                             price |-> price, partial_size |-> partial_size])
    /\ UNCHANGED <<config, aliased, sizing, peer, vector, engine, pc, i, candle, nsig,
                   tape, result, first, run_no, data, strategy>>

NextPortfolio ==
    \/ ConstructPortfolio
    \/ ProcessBuy
    \/ OpenPositionCall
    \/ ClosePositionCall

SpecPortfolio == InitPortfolio /\ [][NextPortfolio]_vars

\* a configuration whose rules are all wildcard rules, one list at least
\* holding one
WildcardOnly(risk_config) ==
    LET rules == risk_config.position_sizes \o risk_config.take_profits
                     \o risk_config.stop_losses
    IN  /\ rules # <<>>
        /\ \A k \in 1..Len(rules) : rules[k].symbol = "*"

\* the rule a lookup by exact symbol finds: the first of the list naming the
\* symbol, nothing when none names it
FoundExactly(rules, symbol, found) ==
    IF \E k \in 1..Len(rules) : rules[k].symbol = symbol
    THEN \E k \in 1..Len(rules) :
            /\ rules[k].symbol = symbol
            /\ \A j \in 1..(k - 1) : rules[j].symbol # symbol
            /\ found = rules[k]
    ELSE found = NoRule

\* C34: the three lookups of RiskConfig are by exact symbol, first match, with
\* no fallback to a `*` rule; so under a wildcard-only configuration a BUY
\* given to the PortfolioManager is sized at 10 % of the portfolio value and
\* its position carries only the stop-loss and take-profit of the signal.
C34_ExactSymbolLookup ==
    [][(portfolio.constructed /\ portfolio'.call.op = "process_signal"
            /\ portfolio'.calls = portfolio.calls + 1) =>
          LET sig == portfolio'.call.signal
              risk_config == portfolio.risk_config
              position == portfolio'.positions[Len(portfolio'.positions)]
          IN  /\ \A rules \in {risk_config.position_sizes,
                               risk_config.take_profits,
                               risk_config.stop_losses} :
                     FoundExactly(rules, sig.symbol, GetRule(rules, sig.symbol))
              /\ (WildcardOnly(risk_config) /\ portfolio'.returned = "position")
                     => /\ position.size =
                               RDiv(RDiv(TotalValue(portfolio), R(10)), sig.price)
                        /\ position.stop_loss = sig.metadata.stop_loss
                        /\ position.take_profit = sig.metadata.take_profit]_vars

\* under a predefined wildcard-only configuration a BUY without exit levels
\* has opened a position, which has no stop-loss and no take-profit
C34_Witness ==
    /\ portfolio.constructed
    /\ portfolio.risk_config = MODERATE_RISK
    /\ portfolio.call.op = "process_signal"
    /\ portfolio.call.signal.metadata = EmptyMeta
    /\ portfolio.returned = "position"
    /\ IsNone(portfolio.positions[Len(portfolio.positions)].stop_loss)
    /\ IsNone(portfolio.positions[Len(portfolio.positions)].take_profit)

\* C39: close_position never closes more than is held: the size of the trade
\* it records and the cash it credits (closed size x price) are at most the
\* size held (x price), and a partial_size below the size held leaves the
\* position open with its size reduced by exactly partial_size.
C39_CloseWithinHolding ==
    [][(portfolio.constructed /\ portfolio'.call.op = "close_position"
            /\ portfolio'.calls = portfolio.calls + 1
            /\ portfolio'.returned = "trade") =>
          LET call == portfolio'.call
              held == portfolio.positions[HeldAt(portfolio, call.symbol)]
              trade == portfolio'.closed_trades[Len(portfolio'.closed_trades)]
              credited == RSub(portfolio'.cash, portfolio.cash)
              at == HeldAt(portfolio', call.symbol)
          IN  /\ RLe(trade.size, held.size)
              /\ credited = RMul(trade.size, call.price)
              /\ RLe(credited, RMul(held.size, call.price))
              /\ (~IsNone(call.partial_size)
                      /\ RLt(call.partial_size, held.size))
                     => /\ at # 0
                        /\ portfolio'.positions[at].size =
                               RSub(held.size, call.partial_size)]_vars

\* C35: in every state of a run, cash = initial_capital - (entry notional of
\* the open positions) - (entry commission of every position opened in the
\* run, open or closed since) + (pnl of the recorded trades, each net of its
\* exit commission).
C35_LedgerIdentity ==
    LET entry_commission ==
            RAdd(RSum([k \in 1..Len(positions) |-> EntryCommission(positions[k])]),
                 RSum([k \in 1..Len(trades) |-> EntryCommission(trades[k])]))
    IN  /\ cash = RAdd(RSub(RSub(config.initial_capital, OpenNotional),
                            entry_commission),
                       NetRealized)
        /\ \A k \in 1..Len(trades) :
               trades[k].pnl =
                   RSub(RMul(RSub(trades[k].exit_price, trades[k].entry_price),
                             trades[k].size),
                        trades[k].commission)

\* with commission charged: a trade closed by an exit order and a position
\* opened after it, still open
C35_Witness ==
    /\ config.commission # R(0)
    /\ positions # <<>>
    /\ \E k \in 1..Len(trades) : trades[k].trade_type \in {"STOP_LOSS", "TAKE_PROFIT"}

(* ------------ a run over gapping candles, with full-size orders ---------- *)
\* flat candles at the three prices: one after another they gap down or up
\* past the levels of ExitMeta
GapCandles == {c \in [high : PriceSet, low : PriceSet, close : PriceSet] :
                  c.high = c.low /\ c.low = c.close}

\* a BUY of the whole cash
FullMeta == [stop_loss |-> NoneR, take_profit |-> NoneR, position_size_pct |-> R(100)]

\* BUY orders for the first symbol: without and with exit levels, and of the
\* whole cash
GapSignals ==
    [type : {"BUY"}, symbol : {"BTC"}, metadata : {EmptyMeta, ExitMeta, FullMeta}]

InitGap == Start(ConfigSet, {FullData}, {IdleStrategy}, {<<>>}, {<<>>})

GapCandle == \E c \in GapCandles : CheckExitOrders(c) /\ UNCHANGED tape

GapSignal ==
    \E sig \in GapSignals : ProcessSignal(sig) /\ UNCHANGED <<nsig, tape, strategy>>

NextGap ==
    \/ RunOnce
    \/ GapCandle
    \/ UpdatePositionPrices
    \/ GapSignal
    \/ RecordEquity
    \/ FinishOnce

SpecGap == InitGap /\ [][NextGap]_vars

\* C36: every trade closed by an exit order (stop-loss, take-profit or
\* trailing stop) has its exit price inside the [low, high] range of the candle
\* that triggered it, gapping candles included.
C36_ExitInsideCandle ==
    [][ExitStep =>
        \A k \in 1..Len(NewTrades) :
            /\ RLe(R(candle'.low), NewTrades[k].exit_price)
            /\ RLe(NewTrades[k].exit_price, R(candle'.high))]_vars

\* C37: every position the engine opens has size > 0 and notional > 0, at
\* every cash level (cash 0 after an order of the whole cash included) and for
\* every position_size_pct.
C37_PositiveSize ==
    \A k \in 1..Len(positions) :
        /\ RLt(R(0), positions[k].size)
        /\ RLt(R(0), EntryNotional(positions[k]))

\* what the holder of the latest returned BacktestResult reads in it: the
\* engine's own lists while the result shares them, else the lists as they
\* were when the engine let go of them
HeldResult ==
    IF aliased
    THEN [trades |-> trades, equity_curve |-> equity_curve]
    ELSE [trades |-> result.trades, equity_curve |-> result.equity_curve]

\* C38: a BacktestResult returned by run() is not altered by a later reset()
\* or run() of the same engine: its trades and equity_curve keep the contents
\* they had when it was returned.
C38_ResultNotAltered ==
    result.returned =>
        /\ HeldResult.trades = result.trades
        /\ HeldResult.equity_curve = result.equity_curve

\* a second run in progress on the engine whose first run returned trades:
\* the engine's lists differ from those of the returned result
C38_Witness ==
    /\ run_no = 2
    /\ pc # "done"
    /\ result.returned
    /\ result.trades # <<>>
    /\ equity_curve # <<>>
    /\ equity_curve # result.equity_curve
    /\ trades # result.trades
    /\ ~aliased
====
